---- MODULE Spec2Model ----
(***************************************************************************)
(* Campus information system: the booking-request workflow of server.js    *)
(* and database.js (users, booking_requests, the access gate of auth.js).  *)
(*                                                                         *)
(* Spec runs the requests one at a time: an action is one request, from   *)
(* the access gate to the response, with every store statement it issues.  *)
(* SpecGate adds the bearer tokens and the clock: requests arrive with any *)
(* Authorization header, and every protected route turns away the ones its *)
(* gate refuses.                                                           *)
(* SpecCatalog adds the catalogs and the schedule table: the admin-only     *)
(* routes that write them, the schedule read and a restart of the server   *)
(* (init on the store as it is).                                           *)
(* SpecSignup runs signups concurrently: a signup handler gives way at     *)
(* each await, so its existence check and its INSERT are separate steps.   *)
(* SpecRace runs status updates and deletes of booking requests            *)
(* concurrently: a handler issues its store statement and the statements   *)
(* of the waiting handlers run in any order.                               *)
(*                                                                         *)
(* Values: a TEXT value is a string, JS undefined is UNDEFINED and SQL     *)
(* NULL in a TEXT column is NULL.  INTEGER columns hold naturals; row ids  *)
(* start at 1 and NOINT (0) is SQL NULL / a missing JSON    *)
(* number, which JS treats as falsy like the number 0.  A query-string     *)
(* value that the code parses is a sequence of one-character strings.      *)
(***************************************************************************)
EXTENDS Integers, Sequences, FiniteSets, TLC

\* ------------------------------------------------------------------ bounds
\* rows ever inserted into booking_requests
MaxReq == 2
\* signup handlers waiting between their existence check and their INSERT
MaxInflight == 2
\* the last day the clock reaches (time is counted in days)
MaxTime == 2
\* tokens issued
MaxTokens == 1
\* catalog and schedule writes that reach the store
MaxWrites == 2
\* requests that issue a store statement while others wait for theirs
MaxQueued == 2

\* ------------------------------------------------------------------ values
UNDEFINED == "undefined"
NULL == "NULL"
NOINT == 0
\* the value CURRENT_TIMESTAMP gives; the model does not tell two times apart
CURRENT_TIMESTAMP == "now"
\* parseInt's NaN
NaN == -1

VARIABLES
    users,              \* table users
    userSeq,            \* AUTOINCREMENT sequence of users
    booking_requests,   \* table booking_requests
    bookingSeq,         \* AUTOINCREMENT sequence of booking_requests
    resp,               \* the response sent by the last step
    pending,            \* signup handlers suspended at await db.createUser:
                        \* how many per student_id
    now,                \* the clock jwt.sign and jwt.verify read, in days
    tokens,             \* the tokens issued so far (kept by the clients)
    signedOut,          \* history: the tokens presented to a successful signout
    tables,             \* the catalog tables and the schedule table, by name
    sqlite_sequence,    \* the AUTOINCREMENT sequence of each of them
    writes,             \* catalog and schedule writes made so far
    handlers            \* the requests whose store statement was issued, in
                        \* order of arrival, each with the place its
                        \* statement took among the statements run

vars == <<users, userSeq, booking_requests, bookingSeq, resp, pending,
          now, tokens, signedOut, tables, sqlite_sequence, writes, handlers>>

\* the store
store == <<users, userSeq, booking_requests, bookingSeq>>

\* JS truthiness of a text value and of a number
Truthy(s) == s # UNDEFINED /\ s # NULL /\ s # ""
TruthyNum(n) == n # NOINT /\ n # NaN

\* ------------------------------------------------------------------ parseInt
DigitVal == [c \in {"0", "1", "2", "3", "4", "5", "6", "7", "8", "9"} |->
               CASE c = "0" -> 0 [] c = "1" -> 1 [] c = "2" -> 2 [] c = "3" -> 3
                 [] c = "4" -> 4 [] c = "5" -> 5 [] c = "6" -> 6 [] c = "7" -> 7
                 [] c = "8" -> 8 [] c = "9" -> 9]

IsDigit(c) == c \in DOMAIN DigitVal

\* the longest prefix of s made of digits
RECURSIVE DigitPrefix(_)
DigitPrefix(s) ==
    IF s = <<>> \/ ~IsDigit(Head(s)) THEN <<>>
    ELSE <<Head(s)>> \o DigitPrefix(Tail(s))

RECURSIVE DigitsValue(_)
DigitsValue(s) ==
    IF s = <<>> THEN 0
    ELSE 10 * DigitsValue(SubSeq(s, 1, Len(s) - 1)) + DigitVal[s[Len(s)]]

\* parseInt(string): the number its leading digits spell, NaN without any
parseInt(s) ==
    IF DigitPrefix(s) = <<>> THEN NaN ELSE DigitsValue(DigitPrefix(s))

\* ------------------------------------------------------------------ access gate
\* the payload jwt.sign puts in a token and jwt.verify gives back as req.user
generateToken(user) ==
    [id |-> user.id, student_id |-> user.student_id, role |-> user.role]

\* req.user of every request that passes authenticateToken
Callers == {generateToken(u) : u \in users}

\* Faulty variant of requireAdmin: the check requireAuth makes (any valid role)
requireAdminAnyRole(user) == user.role = "admin" \/ user.role = "student"

\* requireAdmin lets the request through
requireAdmin(user) == user.role = "admin"

\* ------------------------------------------------------------------ responses
NoQuery == [status |-> UNDEFINED, resource_type |-> UNDEFINED, resource_id |-> <<>>]
NoBody == [resource_type |-> UNDEFINED, resource_id |-> NOINT, date |-> UNDEFINED,
           start_time |-> UNDEFINED, end_time |-> UNDEFINED,
           program_name |-> UNDEFINED, description |-> UNDEFINED,
           participant_count |-> NOINT, user_id |-> NOINT, status |-> UNDEFINED]
NoPatch == [status |-> UNDEFINED, admin_notes |-> UNDEFINED]

\* a response: the route, the caller (req.user), the HTTP status, the :id
\* parameter, the request's query / body, the rows of the JSON answer and
\* this.changes of a write; was is the status the row named by :id had when
\* a status update reached the store; header is the Authorization header
\* where the specification tells headers apart; day and list are the ?day
\* parameter and the answer of the schedule read; error is the error text
\* of a 500 answer
Response(op, user, code) ==
    [op |-> op, user |-> user.id, role |-> user.role, code |-> code, id |-> NOINT,
     query |-> NoQuery, body |-> NoBody, patch |-> NoPatch,
     rows |-> {}, changes |-> 0, was |-> UNDEFINED, header |-> <<>>,
     day |-> UNDEFINED, list |-> <<>>, error |-> UNDEFINED]

Nobody == [id |-> NOINT, student_id |-> UNDEFINED, role |-> UNDEFINED]
NoResponse == Response("none", Nobody, 0)

\* ------------------------------------------------------------------ users
\* the password the signups that pass validation carry
GoodPassword == <<"p", "w", "1", "2", "3", "4">>

findUserByStudentId(student_id) == {u \in users : u.student_id = student_id}

\* bcrypt.hash of a password (a sequence of characters) and bcrypt.compare
bcryptHash(password) == <<"$2a$10$">> \o password
validatePassword(password, hashedPassword) == bcryptHash(password) = hashedPassword

createUser(userData) ==
    [id |-> userSeq + 1, student_id |-> userData.student_id, role |-> userData.role,
     password |-> bcryptHash(userData.password)]

\* insertSampleData on an empty store: the default admin
Admin == [id |-> 1, student_id |-> "admin", role |-> "admin",
          password |-> bcryptHash(<<"a", "d", "m", "i", "n", "1", "2", "3">>)]

\* the status the signup handler answers
SignupCode(body) ==
    IF ~Truthy(body.student_id) \/ ~Truthy(body.name) \/ body.password = <<>> THEN 400
    ELSE IF Len(body.password) < 6 THEN 400
    ELSE IF findUserByStudentId(body.student_id) # {} THEN 400
    ELSE 201

\* Faulty variant of SignupUserData: the role the body names, student when it
\* names none
SignupUserDataBodyRole(body) ==
    [student_id |-> body.student_id, password |-> body.password,
     role |-> IF Truthy(body.role) THEN body.role ELSE "student"]

\* the userData the signup handler passes to createUser
SignupUserData(body) ==
    [student_id |-> body.student_id, password |-> body.password, role |-> "student"]

\* POST /api/auth/signup
Signup(body) ==
    /\ IF SignupCode(body) # 201
       THEN /\ resp' = Response("signup", Nobody, SignupCode(body))
            /\ UNCHANGED <<users, userSeq>>
       ELSE LET newUser == createUser(SignupUserData(body))
            IN /\ users' = users \cup {newUser}
               /\ userSeq' = newUser.id
               /\ resp' = Response("signup", generateToken(newUser), 201)
    /\ UNCHANGED <<booking_requests, bookingSeq>>

\* ------------------------------------------------------------------ routes
\* the routes mounted with authenticateToken, requireAdmin
AdminRoutes ==
    {"GET /api/auth/users", "POST /api/classrooms", "PUT /api/classrooms/:id",
     "DELETE /api/classrooms/:id", "PATCH /api/labs/:id/status",
     "POST /api/buses", "PUT /api/buses/:id", "DELETE /api/buses/:id",
     "POST /api/cafeteria/menu", "PUT /api/cafeteria/menu/:id",
     "DELETE /api/cafeteria/menu/:id", "PUT /api/cafeteria/info",
     "POST /api/schedules", "PUT /api/schedules/:id",
     "DELETE /api/schedules/:id", "PATCH /api/booking-requests/:id/status"}

\* Faulty variant of Middleware: DELETE /api/schedules/:id mounted without
\* requireAdmin
MiddlewareDeleteScheduleOpen ==
    [r \in AdminRoutes \ {"DELETE /api/schedules/:id"}
        |-> <<"authenticateToken", "requireAdmin">>]
    @@ [r \in {"DELETE /api/schedules/:id"} |-> <<"authenticateToken">>]

\* the middleware mounted on each API route, in order, before its handler
Middleware ==
    [r \in {"POST /api/auth/signup", "POST /api/auth/signin", "GET /api/health"}
        |-> <<>>]
    @@ [r \in {"POST /api/auth/signout", "GET /api/auth/me",
               "GET /api/classrooms", "GET /api/classrooms/:id", "GET /api/labs",
               "GET /api/buses", "GET /api/cafeteria/menu",
               "GET /api/cafeteria/menu/:id", "GET /api/cafeteria/info",
               "GET /api/schedules/:type/:id",
               "POST /api/booking-requests", "GET /api/booking-requests",
               "GET /api/booking-requests/:id", "DELETE /api/booking-requests/:id"}
          |-> <<"authenticateToken">>]
    @@ [r \in AdminRoutes |-> <<"authenticateToken", "requireAdmin">>]

Routes == DOMAIN Middleware

\* the routes that mount authenticateToken
Protected == {r \in Routes : \E i \in DOMAIN Middleware[r] :
                                 Middleware[r][i] = "authenticateToken"}

\* ------------------------------------------------------------------ tokens
JWT_SECRET == "campus-info-secret-key-2025"
\* '24h': one day
JWT_EXPIRES_IN == 1

\* jwt.sign(payload, secret, { expiresIn }): the token carries the payload,
\* the time it expires and a signature that verifies under the secret
jwtSign(payload, secret, expiresIn) ==
    [payload |-> payload, exp |-> now + expiresIn, secret |-> secret]

\* the token generateToken returns for a user
SignedToken(user) == jwtSign(generateToken(user), JWT_SECRET, JWT_EXPIRES_IN)

\* jwt.verify(token, secret) gives no error: the signature verifies and the
\* token has not expired
jwtVerify(token, secret) == token.secret = secret /\ now < token.exp

\* no second word in the Authorization header
NoToken == [payload |-> Nobody, exp |-> 0, secret |-> UNDEFINED]

\* authHeader && authHeader.split(' ')[1]; an Authorization header is the
\* sequence of its words, <<>> when the request has none
HeaderToken(header) == IF Len(header) >= 2 THEN header[2] ELSE NoToken

\* Faulty variant of authenticateToken: jwt.verify with ignoreExpiration
authenticateTokenIgnoreExpiration(header) ==
    LET token == HeaderToken(header)
    IN IF token = NoToken THEN [code |-> 401, user |-> Nobody]
       ELSE IF token.secret # JWT_SECRET THEN [code |-> 403, user |-> Nobody]
       ELSE [code |-> 0, user |-> token.payload]

\* Faulty variant of authenticateToken: a token presented to signout is
\* refused from then on
authenticateTokenDenylist(header) ==
    LET token == HeaderToken(header)
    IN IF token = NoToken THEN [code |-> 401, user |-> Nobody]
       ELSE IF ~jwtVerify(token, JWT_SECRET) \/ token \in signedOut
       THEN [code |-> 403, user |-> Nobody]
       ELSE [code |-> 0, user |-> token.payload]

\* authenticateToken: the status it answers (0 when it calls next()) and the
\* req.user it sets
authenticateToken(header) ==
    LET token == HeaderToken(header)
    IN IF token = NoToken THEN [code |-> 401, user |-> Nobody]
       ELSE IF ~jwtVerify(token, JWT_SECRET) THEN [code |-> 403, user |-> Nobody]
       ELSE [code |-> 0, user |-> token.payload]

\* ------------------------------------------------------------------ concurrent signups
\* err.code of the error the store driver gives for a violated UNIQUE
\* constraint: the sqlite3 driver names the primary result code,
\* SQLITE_CONSTRAINT; a driver reporting extended codes would name
\* SQLITE_CONSTRAINT_UNIQUE
ConstraintCodes == {"SQLITE_CONSTRAINT", "SQLITE_CONSTRAINT_UNIQUE"}

\* the status the signup handler's catch block answers for an error code
SignupCatchCode(code) == IF code = "SQLITE_CONSTRAINT_UNIQUE" THEN 400 ELSE 500

\* the student ids of the signups that race
RacingIds == {"s1", "s2", "s3"}

NonePending == [sid \in RacingIds |-> 0]

\* the number of suspended handlers
Inflight == pending["s1"] + pending["s2"] + pending["s3"]

\* a signup up to its await db.createUser: the validation and the existence
\* check; the handler answers 400 or is suspended
SignupCheck(body) ==
    /\ body.student_id \in RacingIds
    /\ IF SignupCode(body) # 201
       THEN /\ resp' = Response("signup", Nobody, SignupCode(body))
            /\ UNCHANGED pending
       ELSE /\ Inflight < MaxInflight
            /\ pending' = [pending EXCEPT ![body.student_id] = @ + 1]
            /\ UNCHANGED resp
    /\ UNCHANGED <<users, userSeq, booking_requests, bookingSeq>>
    /\ UNCHANGED <<now, tokens, signedOut, tables, sqlite_sequence, writes, handlers>>

\* a suspended signup resumes: INSERT INTO users; student_id UNIQUE makes
\* the statement fail when the id is stored by now, and the handler's catch
\* block answers
SignupInsert(student_id, code) ==
    /\ pending[student_id] > 0
    /\ pending' = [pending EXCEPT ![student_id] = @ - 1]
    /\ IF findUserByStudentId(student_id) # {}
       THEN /\ resp' = Response("signup", Nobody, SignupCatchCode(code))
            /\ UNCHANGED <<users, userSeq>>
       ELSE LET newUser == createUser(SignupUserData(
                                [student_id |-> student_id, name |-> "A",
                                 password |-> GoodPassword, role |-> UNDEFINED]))
            IN /\ users' = users \cup {newUser}
               /\ userSeq' = newUser.id
               /\ resp' = Response("signup", generateToken(newUser), 201)
    /\ UNCHANGED <<booking_requests, bookingSeq>>
    /\ UNCHANGED <<now, tokens, signedOut, tables, sqlite_sequence, writes, handlers>>

\* ------------------------------------------------------------------ booking requests
\* the rows a SELECT ... FROM booking_requests br JOIN users u ON br.user_id = u.id
\* ranges over
JoinedRows == {r \in booking_requests : \E u \in users : u.id = r.user_id}

\* Faulty variant of BookingData: the owner is taken from the body when it
\* names one
BookingDataBodyOwner(user, body) ==
    [user_id |-> IF TruthyNum(body.user_id) THEN body.user_id ELSE user.id,
     resource_type |-> body.resource_type,
     resource_id |-> body.resource_id,
     date |-> body.date,
     start_time |-> body.start_time,
     end_time |-> body.end_time,
     program_name |-> body.program_name,
     description |-> body.description,
     participant_count |-> body.participant_count]

\* bookingData as the POST handler builds it from req.user and req.body
BookingData(user, body) ==
    [user_id |-> user.id,
     resource_type |-> body.resource_type,
     resource_id |-> body.resource_id,
     date |-> body.date,
     start_time |-> body.start_time,
     end_time |-> body.end_time,
     program_name |-> body.program_name,
     description |-> body.description,
     participant_count |-> body.participant_count]

\* the row INSERT INTO booking_requests stores: the nine bound columns, the
\* next id of the sequence and the column defaults
createBookingRequest(bookingData) ==
    [id |-> bookingSeq + 1,
     user_id |-> bookingData.user_id,
     resource_type |-> bookingData.resource_type,
     resource_id |-> bookingData.resource_id,
     date |-> bookingData.date,
     start_time |-> bookingData.start_time,
     end_time |-> bookingData.end_time,
     program_name |-> bookingData.program_name,
     description |-> IF Truthy(bookingData.description)
                     THEN bookingData.description ELSE NULL,
     participant_count |-> IF TruthyNum(bookingData.participant_count)
                           THEN bookingData.participant_count ELSE NOINT,
     status |-> "pending",
     admin_notes |-> NULL,
     reviewed_by |-> NOINT,
     reviewed_at |-> NULL,
     created_at |-> CURRENT_TIMESTAMP,
     updated_at |-> CURRENT_TIMESTAMP]

\* Faulty variant of RequiredFieldsPresent: description is demanded too
RequiredFieldsPresentWithDescription(body) ==
    /\ Truthy(body.resource_type)
    /\ TruthyNum(body.resource_id)
    /\ Truthy(body.date)
    /\ Truthy(body.start_time)
    /\ Truthy(body.end_time)
    /\ Truthy(body.program_name)
    /\ Truthy(body.description)

\* Faulty variant of RequiredFieldsPresent: the slot must be free of approved
\* requests too
RequiredFieldsPresentFreeSlot(body) ==
    /\ Truthy(body.resource_type)
    /\ TruthyNum(body.resource_id)
    /\ Truthy(body.date)
    /\ Truthy(body.start_time)
    /\ Truthy(body.end_time)
    /\ Truthy(body.program_name)
    /\ \A r \in booking_requests :
          ~(/\ r.status = "approved"
            /\ r.resource_type = body.resource_type
            /\ r.resource_id = body.resource_id
            /\ r.date = body.date
            /\ r.start_time = body.start_time)

\* the handler's check of the mandatory fields
RequiredFieldsPresent(body) ==
    /\ Truthy(body.resource_type)
    /\ TruthyNum(body.resource_id)
    /\ Truthy(body.date)
    /\ Truthy(body.start_time)
    /\ Truthy(body.end_time)
    /\ Truthy(body.program_name)

\* what POST /api/booking-requests does: the status it answers, the id it
\* answers (this.lastID) and the table afterwards
PostOutcome(user, body) ==
    IF ~RequiredFieldsPresent(body)
    THEN [code |-> 400, id |-> NOINT, table |-> booking_requests]
    ELSE LET row == createBookingRequest(BookingData(user, body))
         IN [code |-> 201, id |-> row.id, table |-> booking_requests \cup {row}]

\* POST /api/booking-requests
PostBookingRequest(user, body) ==
    LET out == PostOutcome(user, body)
    IN /\ out.code = 201 => bookingSeq < MaxReq
       /\ booking_requests' = out.table
       /\ bookingSeq' = IF out.code = 201 THEN out.id ELSE bookingSeq
       /\ resp' = [Response("create", user, out.code) EXCEPT
                      !.body = body, !.id = out.id]
       /\ UNCHANGED <<users, userSeq>>

\* Faulty variant of ListFilters: no owner filter at all
ListFiltersNoOwner(user, query) ==
    [status |-> query.status,
     resource_type |-> query.resource_type,
     resource_id |-> IF query.resource_id # <<>>
                     THEN parseInt(query.resource_id) ELSE NOINT,
     user_id |-> NOINT]

\* Faulty variant of ListFilters: the owner filter for every non-admin
\* caller, whatever the status filter
ListFiltersOwnOnly(user, query) ==
    [status |-> query.status,
     resource_type |-> query.resource_type,
     resource_id |-> IF query.resource_id # <<>>
                     THEN parseInt(query.resource_id) ELSE NOINT,
     user_id |-> IF user.role # "admin" THEN user.id ELSE NOINT]

\* Faulty variant of ListFilters: the owner filter only when no status is
\* asked for
ListFiltersUnfilteredOnly(user, query) ==
    [status |-> query.status,
     resource_type |-> query.resource_type,
     resource_id |-> IF query.resource_id # <<>>
                     THEN parseInt(query.resource_id) ELSE NOINT,
     user_id |-> IF user.role # "admin" /\ ~Truthy(query.status)
                 THEN user.id ELSE NOINT]

\* the filters object the GET handler passes on; resource_id and user_id are
\* NOINT where the handler leaves them unset
ListFilters(user, query) ==
    [status |-> query.status,
     resource_type |-> query.resource_type,
     resource_id |-> IF query.resource_id # <<>>
                     THEN parseInt(query.resource_id) ELSE NOINT,
     user_id |-> IF user.role # "admin" /\ query.status # "approved"
                 THEN user.id ELSE NOINT]

\* Faulty variant of getAllBookingRequests: status "all" is compared like any
\* other status
getAllBookingRequestsAllLiteral(filters) ==
    {r \in JoinedRows :
        /\ Truthy(filters.status) => r.status = filters.status
        /\ TruthyNum(filters.user_id) => r.user_id = filters.user_id
        /\ Truthy(filters.resource_type) => r.resource_type = filters.resource_type
        /\ TruthyNum(filters.resource_id) => r.resource_id = filters.resource_id}

\* SELECT br.* ... WHERE <conditions>; the rows are modelled as a set, their
\* order (ORDER BY br.created_at DESC) is not represented
getAllBookingRequests(filters) ==
    {r \in JoinedRows :
        /\ (Truthy(filters.status) /\ filters.status # "all")
              => r.status = filters.status
        /\ TruthyNum(filters.user_id) => r.user_id = filters.user_id
        /\ Truthy(filters.resource_type) => r.resource_type = filters.resource_type
        /\ TruthyNum(filters.resource_id) => r.resource_id = filters.resource_id}

\* the JSON answer of GET /api/booking-requests
ListAnswer(user, query) == getAllBookingRequests(ListFilters(user, query))

\* GET /api/booking-requests
GetBookingRequests(user, query) ==
    /\ resp' = [Response("list", user, 200) EXCEPT
                   !.query = query, !.rows = ListAnswer(user, query)]
    /\ UNCHANGED <<users, userSeq, booking_requests, bookingSeq>>

\* SELECT br.* ... WHERE br.id = ?  (no row, or the one row)
getBookingRequestById(id) == {r \in JoinedRows : r.id = id}

\* the status the fetch handler answers for the row it read
FetchCode(user, found) ==
    IF found = {} THEN 404
    ELSE IF user.role # "admin" /\ (\E r \in found : r.user_id # user.id) THEN 403
    ELSE 200

\* what GET /api/booking-requests/:id answers
FetchOutcome(user, id) ==
    LET found == getBookingRequestById(id)
        code == FetchCode(user, found)
    IN [code |-> code, rows |-> IF code = 200 THEN found ELSE {}]

\* GET /api/booking-requests/:id
GetBookingRequest(user, id) ==
    LET out == FetchOutcome(user, id)
    IN /\ resp' = [Response("fetch", user, out.code) EXCEPT
                      !.id = id, !.rows = out.rows]
       /\ UNCHANGED <<users, userSeq, booking_requests, bookingSeq>>

\* Faulty variant of ValidTargetStatus: any status that is given
ValidTargetStatusTruthy(status) == Truthy(status)

\* Faulty variant of ValidTargetStatus: any status the table's CHECK allows
ValidTargetStatusSchema(status) ==
    Truthy(status) /\ status \in {"pending", "approved", "rejected"}

\* the handler's validation of the target status
ValidTargetStatus(status) == Truthy(status) /\ status \in {"approved", "rejected"}

\* Faulty variant of updateBookingRequestStatus: WHERE id = ? AND status =
\* 'pending'
updateBookingRequestStatusPendingOnly(id, status, adminId, adminNotes) ==
    {IF r.id = id /\ r.status = "pending"
     THEN [r EXCEPT !.status = status,
                    !.reviewed_by = adminId,
                    !.reviewed_at = CURRENT_TIMESTAMP,
                    !.admin_notes = IF adminNotes = UNDEFINED THEN NULL
                                    ELSE adminNotes,
                    !.updated_at = CURRENT_TIMESTAMP]
     ELSE r : r \in booking_requests}

\* Faulty variant of updateBookingRequestStatus: reviewed_by is not set
updateBookingRequestStatusNoReviewer(id, status, adminId, adminNotes) ==
    {IF r.id = id
     THEN [r EXCEPT !.status = status,
                    !.reviewed_at = CURRENT_TIMESTAMP,
                    !.admin_notes = IF adminNotes = UNDEFINED THEN NULL
                                    ELSE adminNotes,
                    !.updated_at = CURRENT_TIMESTAMP]
     ELSE r : r \in booking_requests}

\* Faulty variant of updateBookingRequestStatus: admin_notes is written only
\* when notes are given
updateBookingRequestStatusKeepNotes(id, status, adminId, adminNotes) ==
    {IF r.id = id
     THEN [r EXCEPT !.status = status,
                    !.reviewed_by = adminId,
                    !.reviewed_at = CURRENT_TIMESTAMP,
                    !.admin_notes = IF adminNotes = UNDEFINED THEN r.admin_notes
                                    ELSE adminNotes,
                    !.updated_at = CURRENT_TIMESTAMP]
     ELSE r : r \in booking_requests}

\* Faulty variant of updateBookingRequestStatus: the reviewer becomes the
\* owner as well
updateBookingRequestStatusTakesOwner(id, status, adminId, adminNotes) ==
    {IF r.id = id
     THEN [r EXCEPT !.status = status,
                    !.user_id = adminId,
                    !.reviewed_by = adminId,
                    !.reviewed_at = CURRENT_TIMESTAMP,
                    !.admin_notes = IF adminNotes = UNDEFINED THEN NULL
                                    ELSE adminNotes,
                    !.updated_at = CURRENT_TIMESTAMP]
     ELSE r : r \in booking_requests}

\* UPDATE booking_requests SET status, reviewed_by, reviewed_at, admin_notes,
\* updated_at WHERE id = ?   (adminNotes defaults to null when undefined)
updateBookingRequestStatus(id, status, adminId, adminNotes) ==
    {IF r.id = id
     THEN [r EXCEPT !.status = status,
                    !.reviewed_by = adminId,
                    !.reviewed_at = CURRENT_TIMESTAMP,
                    !.admin_notes = IF adminNotes = UNDEFINED THEN NULL
                                    ELSE adminNotes,
                    !.updated_at = CURRENT_TIMESTAMP]
     ELSE r : r \in booking_requests}

\* this.changes of a statement with WHERE id = ?
Changes(id) == Cardinality({r \in booking_requests : r.id = id})

\* Faulty variant of PatchOutcome: 404 when the statement changes no row
PatchOutcomeNotFound(user, id, body) ==
    IF ~requireAdmin(user)
    THEN [code |-> 403, table |-> booking_requests, changes |-> 0]
    ELSE IF ~ValidTargetStatus(body.status)
    THEN [code |-> 400, table |-> booking_requests, changes |-> 0]
    ELSE IF Changes(id) = 0
    THEN [code |-> 404, table |-> booking_requests, changes |-> 0]
    ELSE [code |-> 200,
          table |-> updateBookingRequestStatus(id, body.status, user.id,
                                               body.admin_notes),
          changes |-> Changes(id)]

\* what PATCH /api/booking-requests/:id/status does: requireAdmin, the
\* validation, the update
PatchOutcome(user, id, body) ==
    IF ~requireAdmin(user)
    THEN [code |-> 403, table |-> booking_requests, changes |-> 0]
    ELSE IF ~ValidTargetStatus(body.status)
    THEN [code |-> 400, table |-> booking_requests, changes |-> 0]
    ELSE [code |-> 200,
          table |-> updateBookingRequestStatus(id, body.status, user.id,
                                               body.admin_notes),
          changes |-> Changes(id)]

\* PATCH /api/booking-requests/:id/status; a request that requireAdmin turns
\* away never reaches the handler that reads the body
PatchBookingRequestStatus(user, id, body) ==
    LET out == PatchOutcome(user, id, body)
    IN /\ booking_requests' = out.table
       /\ resp' = [Response("status", user, out.code) EXCEPT
                      !.id = id,
                      !.patch = IF out.code = 403 THEN NoPatch ELSE body,
                      !.changes = out.changes,
                      !.was = IF out.code = 200 /\ getBookingRequestById(id) # {}
                              THEN (CHOOSE r \in getBookingRequestById(id) : TRUE).status
                              ELSE UNDEFINED]
       /\ UNCHANGED <<users, userSeq, bookingSeq>>

\* Faulty variant of DeleteCode: the owner may delete whatever the status
DeleteCodeOwnerAnyStatus(user, found) ==
    IF found = {} THEN 404
    ELSE IF user.role # "admin" /\ (\E r \in found : r.user_id # user.id) THEN 403
    ELSE 0

\* the status the DELETE handler answers after reading the row; 0 when it
\* goes on to the delete statement
DeleteCode(user, found) ==
    IF found = {} THEN 404
    ELSE IF user.role # "admin" /\ (\E r \in found : r.user_id # user.id) THEN 403
    ELSE IF user.role # "admin" /\ (\E r \in found : r.status # "pending") THEN 400
    ELSE 0

\* Faulty variant of deleteBookingRequest: WHERE user_id = ?
deleteBookingRequestByUser(id) == {r \in booking_requests : r.user_id # id}

\* DELETE FROM booking_requests WHERE id = ?
deleteBookingRequest(id) == {r \in booking_requests : r.id # id}

\* what DELETE /api/booking-requests/:id does
DeleteOutcome(user, id) ==
    LET code == DeleteCode(user, getBookingRequestById(id))
    IN IF code # 0
       THEN [code |-> code, table |-> booking_requests, changes |-> 0]
       ELSE [code |-> 200, table |-> deleteBookingRequest(id), changes |-> Changes(id)]

\* DELETE /api/booking-requests/:id
DeleteBookingRequest(user, id) ==
    LET out == DeleteOutcome(user, id)
    IN /\ booking_requests' = out.table
       /\ resp' = [Response("delete", user, out.code) EXCEPT
                      !.id = id, !.changes = out.changes]
       /\ UNCHANGED <<users, userSeq, bookingSeq>>

\* ------------------------------------------------------------------ inputs
\* signup bodies: student_id, name, the password (a sequence of characters)
\* and a role the body may name
SignupBodies ==
    {[student_id |-> "s1", name |-> "A", password |-> GoodPassword, role |-> "admin"],
     [student_id |-> "admin", name |-> "C", password |-> GoodPassword, role |-> UNDEFINED],
     [student_id |-> "s1", name |-> "A", password |-> <<"p", "w", "1", "2", "3">>,
      role |-> UNDEFINED],
     [student_id |-> UNDEFINED, name |-> "A", password |-> GoodPassword,
      role |-> UNDEFINED]}

ValidBody ==
    [resource_type |-> "classroom", resource_id |-> 1, date |-> "2025-12-01",
     start_time |-> "10:00", end_time |-> "12:00", program_name |-> "Workshop",
     description |-> UNDEFINED, participant_count |-> NOINT,
     user_id |-> NOINT, status |-> UNDEFINED]

\* a body that also names another user's id and a status
SpoofBody ==
    [resource_type |-> "lab", resource_id |-> 2, date |-> "2025-12-01",
     start_time |-> "11:00", end_time |-> "13:00", program_name |-> "Seminar",
     description |-> "talk", participant_count |-> 30,
     user_id |-> 1, status |-> "approved"]

\* the signups that race: two student ids free at the start, one sent with a
\* password too short as well, and the admin's
RacingBodies ==
    {[student_id |-> sid, name |-> "A", password |-> GoodPassword, role |-> UNDEFINED] :
        sid \in RacingIds \cup {"admin"}}
    \cup {[student_id |-> "s1", name |-> "A", password |-> <<"p", "w">>,
           role |-> UNDEFINED]}

\* the bodies the create action is run with
BookingBodies ==
    {ValidBody, SpoofBody, [ValidBody EXCEPT !.program_name = UNDEFINED]}

\* every body the creation claims range over: each of the two with any
\* user_id and status beside its fields
AllBookingBodies ==
    {[b EXCEPT !.user_id = u, !.status = s] :
        b \in {ValidBody, SpoofBody},
        u \in 0 .. 2,
        s \in {UNDEFINED, "approved", "rejected"}}

\* the mandatory text fields of a creation body
MandatoryText == {"resource_type", "date", "start_time", "end_time", "program_name"}

\* every body the claim on mandatory fields ranges over: a body with and
\* without description and participant_count, and the body with one
\* mandatory field missing or empty
CreationBodies ==
    {[ValidBody EXCEPT !.description = d, !.participant_count = n] :
        d \in {UNDEFINED, "talk"}, n \in {NOINT, 30}}
    \cup {[ValidBody EXCEPT ![f] = v] : f \in MandatoryText, v \in {UNDEFINED, ""}}
    \cup {[ValidBody EXCEPT !.resource_id = NOINT]}

StatusFilters == {UNDEFINED, "all", "pending", "approved"}
TypeFilters == {UNDEFINED, "lab"}
IdFilters == {<<>>, <<"0">>, <<"2">>, <<"2", "x">>, <<"x">>}

\* every query the listing claims range over
Queries == [status : StatusFilters, resource_type : TypeFilters, resource_id : IdFilters]

\* the queries the listing action is run with
SentQueries ==
    {NoQuery,
     [NoQuery EXCEPT !.status = "approved"],
     [NoQuery EXCEPT !.status = "pending", !.resource_type = "lab",
                     !.resource_id = <<"2", "x">>]}

\* every status-update body the claims range over
PatchBodies ==
    [status : {UNDEFINED, "approved", "rejected", "pending", "cancelled"},
     admin_notes : {UNDEFINED, "", "OK"}]

\* the bodies the status-update action is run with
SentPatchBodies ==
    {[status |-> "approved", admin_notes |-> "OK"],
     [status |-> "rejected", admin_notes |-> UNDEFINED],
     [status |-> "pending", admin_notes |-> "OK"]}

\* the :id parameters sent: every id the sequence can give
RequestIds == 1 .. MaxReq

\* ------------------------------------------------------------------ gated requests
\* a token signed with another secret, naming the admin and expiring late
ForgedToken ==
    [payload |-> generateToken(Admin), exp |-> MaxTime + 2, secret |-> "guess"]

\* the Authorization headers requests arrive with: none, a scheme without a
\* token, and a scheme followed by an issued or a forged token
Headers ==
    {<<>>, <<"Bearer">>}
    \cup {<<"Bearer", t>> : t \in tokens \cup {ForgedToken}}

SigninBodies ==
    {[student_id |-> "admin", password |-> <<"a", "d", "m", "i", "n", "1", "2", "3">>],
     [student_id |-> "admin", password |-> GoodPassword],
     [student_id |-> "s1", password |-> GoodPassword],
     [student_id |-> UNDEFINED, password |-> GoodPassword]}

\* the status the signin handler answers
SigninCode(body) ==
    IF ~Truthy(body.student_id) \/ body.password = <<>> THEN 400
    ELSE IF findUserByStudentId(body.student_id) = {} THEN 401
    ELSE IF \E u \in findUserByStudentId(body.student_id) :
               ~validatePassword(body.password, u.password) THEN 401
    ELSE 200

\* POST /api/auth/signin
Signin(body) ==
    /\ SigninCode(body) = 200 => Cardinality(tokens) < MaxTokens
    /\ IF SigninCode(body) # 200
       THEN /\ resp' = Response("signin", Nobody, SigninCode(body))
            /\ UNCHANGED tokens
       ELSE LET user == CHOOSE u \in findUserByStudentId(body.student_id) : TRUE
            IN /\ tokens' = tokens \cup {SignedToken(user)}
               /\ resp' = Response("signin", generateToken(user), 200)
    /\ UNCHANGED <<store, pending, now, signedOut>>
    /\ UNCHANGED <<tables, sqlite_sequence, writes, handlers>>

\* POST /api/auth/signup, with the token it answers
SignupToken(body) ==
    /\ SignupCode(body) = 201 => Cardinality(tokens) < MaxTokens
    /\ Signup(body)
    /\ tokens' = IF SignupCode(body) = 201
                 THEN tokens \cup {SignedToken(createUser(SignupUserData(body)))}
                 ELSE tokens
    /\ UNCHANGED <<pending, now, signedOut>>
    /\ UNCHANGED <<tables, sqlite_sequence, writes, handlers>>

\* a day passes
Tick ==
    /\ now < MaxTime
    /\ now' = now + 1
    /\ UNCHANGED <<store, resp, pending, tokens, signedOut>>
    /\ UNCHANGED <<tables, sqlite_sequence, writes, handlers>>

\* a request to a protected route that authenticateToken turns away: the
\* answer is the gate's, whatever the route
Refused(route, header) ==
    /\ route \in Protected
    /\ authenticateToken(header).code # 0
    /\ resp' = [Response("refused", Nobody, authenticateToken(header).code)
                   EXCEPT !.header = header]
    /\ UNCHANGED <<store, pending, now, tokens, signedOut>>
    /\ UNCHANGED <<tables, sqlite_sequence, writes, handlers>>

\* POST /api/auth/signout
Signout(header) ==
    /\ authenticateToken(header).code = 0
    /\ resp' = [Response("signout", authenticateToken(header).user, 200)
                   EXCEPT !.header = header]
    /\ signedOut' = signedOut \cup {HeaderToken(header)}
    /\ UNCHANGED <<store, pending, now, tokens>>
    /\ UNCHANGED <<tables, sqlite_sequence, writes, handlers>>

\* GET /api/auth/me
Me(header) ==
    /\ authenticateToken(header).code = 0
    /\ resp' = [Response("me", authenticateToken(header).user, 200)
                   EXCEPT !.header = header]
    /\ UNCHANGED <<store, pending, now, tokens, signedOut>>
    /\ UNCHANGED <<tables, sqlite_sequence, writes, handlers>>

\* POST /api/booking-requests behind its gate
GatedPostBookingRequest(header, body) ==
    /\ authenticateToken(header).code = 0
    /\ PostBookingRequest(authenticateToken(header).user, body)
    /\ UNCHANGED <<pending, now, tokens, signedOut>>
    /\ UNCHANGED <<tables, sqlite_sequence, writes, handlers>>

\* ------------------------------------------------------------------ catalogs
CatalogTables ==
    {"classrooms", "labs", "buses", "bus_stops", "cafeteria_menu", "cafeteria_info",
     "schedules"}

\* per table: the TEXT and the numeric columns declared NOT NULL, the UNIQUE
\* columns and the CHECK constraints.  Rows carry the columns the statements
\* bind; created_at and updated_at are left out
Schema ==
    [classrooms |-> [text |-> {"room", "dept", "floor"}, num |-> {"capacity"},
                     unique |-> {"room"}, check |-> {}],
     labs |-> [text |-> {"name", "dept", "location", "status", "hours"},
               num |-> {"computers"}, unique |-> {},
               check |-> {[col |-> "status", allowed |-> {"open", "closed"}]}],
     buses |-> [text |-> {"number", "time", "route"}, num |-> {},
                unique |-> {"number"}, check |-> {}],
     bus_stops |-> [text |-> {"stop_name"}, num |-> {"bus_id", "stop_order"},
                    unique |-> {}, check |-> {}],
     cafeteria_menu |->
         [text |-> {"name", "description", "category", "availability"},
          num |-> {"price"}, unique |-> {},
          check |-> {[col |-> "category", allowed |-> {"food", "snacks", "drinks"}],
                     [col |-> "availability", allowed |-> {"available", "limited"}]}],
     cafeteria_info |-> [text |-> {"location", "contact", "hours"}, num |-> {},
                         unique |-> {}, check |-> {}],
     schedules |-> [text |-> {"resource_type", "day_of_week", "start_time",
                              "end_time", "subject"},
                    num |-> {"resource_id"}, unique |-> {}, check |-> {}]]

\* a store call threads the tables, their sequences and the error that made
\* an earlier statement of the call fail: the statements after it never run
NoError == "none"
Db == [tables |-> tables, seq |-> sqlite_sequence, err |-> NoError]

\* the constraint a row violates in table t; self is the id of the row when
\* it is rewritten, 0 when it is new
Violation(db, t, row, self) ==
    IF \/ \E c \in Schema[t].text : row[c] \in {UNDEFINED, NULL}
       \/ \E c \in Schema[t].num : row[c] = NOINT
    THEN "NOT NULL"
    ELSE IF \E k \in Schema[t].check : row[k.col] \notin k.allowed THEN "CHECK"
    ELSE IF \E c \in Schema[t].unique :
               \E q \in db.tables[t] : q.id # self /\ q[c] = row[c] THEN "UNIQUE"
    ELSE NoError

\* INSERT INTO t: the row gets the next id of the table's sequence
Insert(db, t, row) ==
    IF db.err # NoError THEN db
    ELSE IF Violation(db, t, row, 0) # NoError
    THEN [db EXCEPT !.err = Violation(db, t, row, 0)]
    ELSE [db EXCEPT !.tables[t] = @ \cup {[id |-> db.seq[t] + 1] @@ row},
                    !.seq[t] = @ + 1]

\* UPDATE t SET <the columns of set> WHERE id = ?
Update(db, t, id, set) ==
    IF db.err # NoError THEN db
    ELSE LET new(r) == [c \in DOMAIN r |-> IF c \in DOMAIN set THEN set[c] ELSE r[c]]
             hit == {r \in db.tables[t] : r.id = id}
         IN IF \E r \in hit : Violation(db, t, new(r), id) # NoError
            THEN [db EXCEPT !.err = Violation(db, t, new(CHOOSE r \in hit : TRUE), id)]
            ELSE [db EXCEPT !.tables[t] = (@ \ hit) \cup {new(r) : r \in hit}]

\* DELETE FROM t WHERE col = ?   (foreign keys are not enforced: nothing
\* cascades)
Delete(db, t, col, val) ==
    IF db.err # NoError THEN db
    ELSE [db EXCEPT !.tables[t] = {r \in @ : r[col] # val}]

insertClassroom(db, classroom) ==
    Insert(db, "classrooms",
           [room |-> classroom.room, dept |-> classroom.dept,
            floor |-> classroom.floor, capacity |-> classroom.capacity])

createClassroom(db, classroom) == insertClassroom(db, classroom)

updateClassroom(db, id, classroom) ==
    Update(db, "classrooms", id,
           [room |-> classroom.room, dept |-> classroom.dept,
            floor |-> classroom.floor, capacity |-> classroom.capacity])

deleteClassroom(db, id) == Delete(db, "classrooms", "id", id)

insertLab(db, lab) ==
    Insert(db, "labs",
           [name |-> lab.name, dept |-> lab.dept, location |-> lab.location,
            computers |-> lab.computers,
            projector |-> IF Truthy(lab.projector) THEN lab.projector ELSE "No",
            instruments |-> IF Truthy(lab.instruments) THEN lab.instruments
                            ELSE "None",
            status |-> lab.status, hours |-> lab.hours])

updateLabStatus(db, id, status) ==
    IF \A lab \in db.tables["labs"] : lab.id # id
    THEN [db EXCEPT !.err = "Lab not found"]
    ELSE Update(db, "labs", id, [status |-> status])

insertBus(db, bus) ==
    Insert(db, "buses", [number |-> bus.number, time |-> bus.time, route |-> bus.route])

\* for (i = 0; i < stops.length; i++) insertBusStop(busId, stops[i], i + 1),
\* from the i-th stop on
RECURSIVE insertBusStops(_, _, _, _)
insertBusStops(db, busId, stops, i) ==
    IF i > Len(stops) THEN db
    ELSE insertBusStops(
             Insert(db, "bus_stops",
                    [bus_id |-> busId, stop_name |-> stops[i], stop_order |-> i]),
             busId, stops, i + 1)

createBus(db, busData) ==
    LET inserted == insertBus(db, busData)
    IN insertBusStops(inserted, inserted.seq["buses"], busData.stops, 1)

\* Faulty variant of updateBus: the statements in one transaction, rolled
\* back when one fails
updateBusAtomic(db, id, busData) ==
    LET after ==
            insertBusStops(
                Delete(Update(db, "buses", id,
                              [number |-> busData.number, time |-> busData.time,
                               route |-> busData.route]),
                       "bus_stops", "bus_id", id),
                id, busData.stops, 1)
    IN IF after.err # NoError THEN [db EXCEPT !.err = after.err] ELSE after

\* the three steps of updateBus, run without interruption: the UPDATE, the
\* DELETE of the stops, the INSERT of the new stops
updateBus(db, id, busData) ==
    insertBusStops(
        Delete(Update(db, "buses", id,
                      [number |-> busData.number, time |-> busData.time,
                       route |-> busData.route]),
               "bus_stops", "bus_id", id),
        id, busData.stops, 1)

deleteBus(db, id) == Delete(db, "buses", "id", id)

insertMenuItem(db, item) ==
    Insert(db, "cafeteria_menu",
           [name |-> item.name, description |-> item.description,
            price |-> item.price, category |-> item.category,
            availability |-> item.availability])

createMenuItem(db, item) ==
    Insert(db, "cafeteria_menu",
           [name |-> item.name, description |-> item.description,
            price |-> item.price, category |-> item.category,
            availability |-> item.availability])

updateMenuItem(db, id, item) ==
    Update(db, "cafeteria_menu", id,
           [name |-> item.name, description |-> item.description,
            price |-> item.price, category |-> item.category,
            availability |-> item.availability])

deleteMenuItem(db, id) == Delete(db, "cafeteria_menu", "id", id)

insertCafeteriaInfo(db, info) ==
    Insert(db, "cafeteria_info",
           [location |-> info.location, contact |-> info.contact, hours |-> info.hours])

\* SELECT id FROM cafeteria_info LIMIT 1 (the first row of the table), then
\* the UPDATE of that row, or the INSERT when there is none
updateCafeteriaInfo(db, info) ==
    LET rows == db.tables["cafeteria_info"]
    IN IF rows = {} THEN insertCafeteriaInfo(db, info)
       ELSE Update(db, "cafeteria_info",
                   (CHOOSE r \in rows : \A q \in rows : r.id <= q.id).id,
                   [location |-> info.location, contact |-> info.contact,
                    hours |-> info.hours])

createSchedule(db, schedule) ==
    Insert(db, "schedules",
           [resource_type |-> schedule.resource_type,
            resource_id |-> schedule.resource_id,
            day_of_week |-> schedule.day_of_week,
            start_time |-> schedule.start_time,
            end_time |-> schedule.end_time,
            subject |-> schedule.subject,
            instructor |-> IF Truthy(schedule.instructor) THEN schedule.instructor
                           ELSE NULL,
            course_code |-> IF Truthy(schedule.course_code) THEN schedule.course_code
                            ELSE NULL])

\* the SET list is built from the fields the body gives
updateSchedule(db, scheduleId, updates) ==
    LET fields ==
            {c \in {"day_of_week", "start_time", "end_time", "subject"} :
                Truthy(updates[c])}
            \cup {c \in {"instructor", "course_code"} : updates[c] # UNDEFINED}
    IN IF fields = {} THEN [db EXCEPT !.err = "No fields to update"]
       ELSE Update(db, "schedules", scheduleId, [c \in fields |-> updates[c]])

deleteSchedule(db, scheduleId) == Delete(db, "schedules", "id", scheduleId)

\* the bytes of the TEXT values the schedule read orders by
Bytes ==
    [t \in {"Monday"} |-> <<77, 111, 110, 100, 97, 121>>]
    @@ [t \in {"Friday"} |-> <<70, 114, 105, 100, 97, 121>>]
    @@ [t \in {"10:00"} |-> <<49, 48, 58, 48, 48>>]
    @@ [t \in {"9:00"} |-> <<57, 58, 48, 48>>]

\* memcmp order of two byte strings, the shorter first when one is a prefix
RECURSIVE BytesLess(_, _)
BytesLess(a, b) ==
    IF b = <<>> THEN FALSE
    ELSE IF a = <<>> THEN TRUE
    ELSE IF Head(a) # Head(b) THEN Head(a) < Head(b)
    ELSE BytesLess(Tail(a), Tail(b))

\* the order of two TEXT values under the BINARY collation
TextLess(s, t) == BytesLess(Bytes[s], Bytes[t])

\* ORDER BY day_of_week, start_time; rows that tie come in the order of the
\* scan, by id
ScheduleBefore(r, q) ==
    \/ TextLess(r.day_of_week, q.day_of_week)
    \/ /\ r.day_of_week = q.day_of_week
       /\ \/ TextLess(r.start_time, q.start_time)
          \/ r.start_time = q.start_time /\ r.id <= q.id

RECURSIVE OrderBy(_)
OrderBy(rows) ==
    IF rows = {} THEN <<>>
    ELSE LET first == CHOOSE r \in rows : \A q \in rows : ScheduleBefore(r, q)
         IN <<first>> \o OrderBy(rows \ {first})

\* rows in the order of the scan alone
RECURSIVE ScanOrder(_)
ScanOrder(rows) ==
    IF rows = {} THEN <<>>
    ELSE LET first == CHOOSE r \in rows : \A q \in rows : r.id <= q.id
         IN <<first>> \o ScanOrder(rows \ {first})

\* an INTEGER column equals a text parameter when the text spells that
\* integer (the column's affinity converts it); other text equals no integer
IntegerEquals(col, text) ==
    text # <<>> /\ DigitPrefix(text) = text /\ col = DigitsValue(text)

\* Faulty variant of getSchedulesByResource: no ORDER BY
getSchedulesByResourceUnordered(resourceType, resourceId, dayOfWeek) ==
    ScanOrder({r \in tables["schedules"] :
                  /\ r.resource_type = resourceType
                  /\ IntegerEquals(r.resource_id, resourceId)
                  /\ Truthy(dayOfWeek) => r.day_of_week = dayOfWeek})

\* SELECT * FROM schedules WHERE resource_type = ? AND resource_id = ?
\* [AND day_of_week = ?] ORDER BY day_of_week, start_time
getSchedulesByResource(resourceType, resourceId, dayOfWeek) ==
    OrderBy({r \in tables["schedules"] :
                /\ r.resource_type = resourceType
                /\ IntegerEquals(r.resource_id, resourceId)
                /\ Truthy(dayOfWeek) => r.day_of_week = dayOfWeek})

\* ------------------------------------------------------------------ init
\* the sample lists, cut to their first rows
SampleClassrooms ==
    <<[room |-> "G-101", dept |-> "CSE", floor |-> "Ground Floor", capacity |-> 60],
      [room |-> "G-102", dept |-> "EEE", floor |-> "Ground Floor", capacity |-> 50]>>

SampleLabs ==
    <<[name |-> "CSE Programming Lab 1", dept |-> "CSE",
       location |-> "1st Floor, Room 1-105", computers |-> 50, projector |-> "Yes",
       instruments |-> "Whiteboard, Sound System", status |-> "open",
       hours |-> "8:00 AM - 6:00 PM"]>>

SampleBuses ==
    <<[bus |-> [number |-> "A1", time |-> "7:30 AM",
                route |-> "Campus - City Center - Main Station"],
       stops |-> <<"Campus Gate", "Medical College">>]>>

SampleMenu ==
    <<[name |-> "Chicken Biriyani",
       description |-> "Traditional aromatic rice with tender chicken",
       price |-> 180, category |-> "food", availability |-> "available"]>>

SampleInfo ==
    [location |-> "Ground Floor, Main Building", contact |-> "+880-1234-567890",
     hours |-> "8:00 AM - 8:00 PM"]

\* the for loops of insertSampleData, from the i-th sample of a list on
RECURSIVE insertSamples(_, _, _, _)
insertSamples(db, t, samples, i) ==
    IF i > Len(samples) THEN db
    ELSE insertSamples(
             CASE t = "classrooms" -> insertClassroom(db, samples[i])
               [] t = "labs" -> insertLab(db, samples[i])
               [] t = "buses" ->
                    insertBusStops(insertBus(db, samples[i].bus),
                                   insertBus(db, samples[i].bus).seq["buses"],
                                   samples[i].stops, 1)
               [] t = "cafeteria_menu" -> insertMenuItem(db, samples[i]),
             t, samples, i + 1)

\* insertSampleData on a store st = [users, userSeq, db]: the admin unless
\* there is one, then the samples unless classrooms holds a row
insertSampleData(st) ==
    LET named == {u \in st.users : u.student_id = "admin"}
        withAdmin ==
            IF named # {} THEN st
            ELSE [st EXCEPT !.users = @ \cup {[Admin EXCEPT !.id = st.userSeq + 1]},
                            !.userSeq = @ + 1]
    IN IF withAdmin.db.tables["classrooms"] # {} THEN withAdmin
       ELSE [withAdmin EXCEPT !.db =
                insertCafeteriaInfo(
                    insertSamples(
                        insertSamples(
                            insertSamples(
                                insertSamples(@, "classrooms", SampleClassrooms, 1),
                                "labs", SampleLabs, 1),
                            "buses", SampleBuses, 1),
                        "cafeteria_menu", SampleMenu, 1),
                    SampleInfo)]

\* the store createTables leaves when the database file is new
EmptyStore ==
    [users |-> {}, userSeq |-> 0,
     db |-> [tables |-> [t \in CatalogTables |-> {}],
             seq |-> [t \in CatalogTables |-> 0], err |-> NoError]]

\* the store after the first init
Seeded == insertSampleData(EmptyStore)

\* the server starts again: init on the store as it is.  The answer is 0
\* when init resolves and 1 when it rejects (the process exits); the store
\* keeps what was written before the failure
Restart ==
    LET out == insertSampleData([users |-> users, userSeq |-> userSeq, db |-> Db])
    IN /\ users' = out.users
       /\ userSeq' = out.userSeq
       /\ tables' = out.db.tables
       /\ sqlite_sequence' = out.db.seq
       /\ resp' = Response("init", Nobody, IF out.db.err = NoError THEN 0 ELSE 1)
       /\ UNCHANGED <<booking_requests, bookingSeq, pending, now, tokens, signedOut,
                      writes, handlers>>

\* ------------------------------------------------------------------ catalog routes
CatalogWriteRoutes ==
    {"POST /api/classrooms", "PUT /api/classrooms/:id", "DELETE /api/classrooms/:id",
     "PATCH /api/labs/:id/status",
     "POST /api/buses", "PUT /api/buses/:id", "DELETE /api/buses/:id",
     "POST /api/cafeteria/menu", "PUT /api/cafeteria/menu/:id",
     "DELETE /api/cafeteria/menu/:id", "PUT /api/cafeteria/info",
     "POST /api/schedules", "PUT /api/schedules/:id", "DELETE /api/schedules/:id"}

\* the routes whose catch block answers 400 for SQLITE_CONSTRAINT_UNIQUE
UniqueCaught ==
    {"POST /api/classrooms", "PUT /api/classrooms/:id", "POST /api/buses",
     "PUT /api/buses/:id", "POST /api/cafeteria/menu"}

\* the status a route's catch block answers for the error of a store call;
\* code is err.code of a violated UNIQUE constraint
CatchCode(route, err, code) ==
    IF err = "UNIQUE" /\ code = "SQLITE_CONSTRAINT_UNIQUE" /\ route \in UniqueCaught
    THEN 400
    ELSE IF err = "Lab not found" /\ route = "PATCH /api/labs/:id/status" THEN 404
    ELSE 500

\* the store call of each handler
Handler(route, db, id, body) ==
    CASE route = "POST /api/classrooms" -> createClassroom(db, body)
      [] route = "PUT /api/classrooms/:id" -> updateClassroom(db, id, body)
      [] route = "DELETE /api/classrooms/:id" -> deleteClassroom(db, id)
      [] route = "PATCH /api/labs/:id/status" -> updateLabStatus(db, id, body.status)
      [] route = "POST /api/buses" -> createBus(db, body)
      [] route = "PUT /api/buses/:id" -> updateBus(db, id, body)
      [] route = "DELETE /api/buses/:id" -> deleteBus(db, id)
      [] route = "POST /api/cafeteria/menu" -> createMenuItem(db, body)
      [] route = "PUT /api/cafeteria/menu/:id" -> updateMenuItem(db, id, body)
      [] route = "DELETE /api/cafeteria/menu/:id" -> deleteMenuItem(db, id)
      [] route = "PUT /api/cafeteria/info" -> updateCafeteriaInfo(db, body)
      [] route = "POST /api/schedules" -> createSchedule(db, body)
      [] route = "PUT /api/schedules/:id" -> updateSchedule(db, id, body)
      [] route = "DELETE /api/schedules/:id" -> deleteSchedule(db, id)

\* POST /api/schedules answers 400 before the store call
ScheduleFieldsMissing(route, body) ==
    /\ route = "POST /api/schedules"
    /\ \/ \E c \in {"resource_type", "day_of_week", "start_time", "end_time", "subject"} :
             ~Truthy(body[c])
       \/ ~TruthyNum(body.resource_id)

\* what a catalog or schedule write does after authenticateToken: the rest
\* of the route's middleware, then the handler
CatalogOutcome(route, user, id, body, code) ==
    IF (\E i \in DOMAIN Middleware[route] : Middleware[route][i] = "requireAdmin")
       /\ ~requireAdmin(user)
    THEN [code |-> 403, db |-> Db]
    ELSE IF ScheduleFieldsMissing(route, body) THEN [code |-> 400, db |-> Db]
    ELSE LET after == Handler(route, Db, id, body)
         IN [code |-> IF after.err # NoError THEN CatchCode(route, after.err, code)
                      ELSE IF route \in {"POST /api/classrooms", "POST /api/buses",
                                         "POST /api/cafeteria/menu", "POST /api/schedules"}
                      THEN 201 ELSE 200,
             db |-> after]

\* the error text each catch block puts in its 500 answer
FailedMessage ==
    [r \in {"POST /api/classrooms"} |-> "Failed to create classroom"]
    @@ [r \in {"PUT /api/classrooms/:id"} |-> "Failed to update classroom"]
    @@ [r \in {"DELETE /api/classrooms/:id"} |-> "Failed to delete classroom"]
    @@ [r \in {"PATCH /api/labs/:id/status"} |-> "Failed to update lab status"]
    @@ [r \in {"POST /api/buses"} |-> "Failed to create bus route"]
    @@ [r \in {"PUT /api/buses/:id"} |-> "Failed to update bus route"]
    @@ [r \in {"DELETE /api/buses/:id"} |-> "Failed to delete bus route"]
    @@ [r \in {"POST /api/cafeteria/menu"} |-> "Failed to create menu item"]
    @@ [r \in {"PUT /api/cafeteria/menu/:id"} |-> "Failed to update menu item"]
    @@ [r \in {"DELETE /api/cafeteria/menu/:id"} |-> "Failed to delete menu item"]
    @@ [r \in {"PUT /api/cafeteria/info"} |-> "Failed to update cafeteria info"]
    @@ [r \in {"POST /api/schedules"} |-> "Failed to create schedule"]
    @@ [r \in {"PUT /api/schedules/:id"} |-> "Failed to update schedule"]
    @@ [r \in {"DELETE /api/schedules/:id"} |-> "Failed to delete schedule"]

\* the error text of a 500 answer (UNDEFINED for the other answers, whose
\* text is not modelled); err stands for error.message, the text of the
\* store's or the method's error
ErrorBody(route, code, err) ==
    IF code # 500 THEN UNDEFINED
    ELSE IF route = "PUT /api/schedules/:id" /\ err # "" THEN err
    ELSE FailedMessage[route]

\* a request to one of the routes that write the catalogs or the schedules
CatalogRequest(route, user, id, body, code) ==
    LET out == CatalogOutcome(route, user, id, body, code)
    IN /\ out.db.tables # tables => writes < MaxWrites
       /\ tables' = out.db.tables
       /\ sqlite_sequence' = out.db.seq
       /\ writes' = IF out.db.tables # tables THEN writes + 1 ELSE writes
       /\ resp' = [Response(route, user, out.code) EXCEPT
                      !.id = id, !.error = ErrorBody(route, out.code, out.db.err)]
       /\ UNCHANGED <<store, pending, now, tokens, signedOut, handlers>>

\* GET /api/schedules/:type/:id
GetSchedules(user, type, id, day) ==
    /\ resp' = [Response("GET /api/schedules/:type/:id", user, 200) EXCEPT
                   !.query = [NoQuery EXCEPT !.resource_type = type, !.resource_id = id],
                   !.day = day,
                   !.list = getSchedulesByResource(type, id, day)]
    /\ UNCHANGED <<store, pending, now, tokens, signedOut, tables, sqlite_sequence,
                   writes, handlers>>

\* the requests sent to the routes that write: route, :id and body
ClassroomBody ==
    [room |-> "G-201", dept |-> "CSE", floor |-> "1st Floor", capacity |-> 40]
BusBody ==
    [number |-> "A1", time |-> "9:00 AM", route |-> "Campus - Lake View",
     stops |-> <<"Campus Gate">>]
MenuBody ==
    [name |-> "Tea", description |-> "Hot milk tea", price |-> 15,
     category |-> "drinks", availability |-> "available"]
ScheduleBody ==
    [resource_type |-> "classroom", resource_id |-> 1, day_of_week |-> "Monday",
     start_time |-> "10:00", end_time |-> "11:00", subject |-> "Algorithms",
     instructor |-> UNDEFINED, course_code |-> UNDEFINED]

CatalogRequests ==
    {[route |-> "POST /api/classrooms", id |-> NOINT, body |-> ClassroomBody],
     [route |-> "PUT /api/classrooms/:id", id |-> 2,
      body |-> [ClassroomBody EXCEPT !.room = "G-101"]],
     [route |-> "DELETE /api/classrooms/:id", id |-> 1, body |-> NoBody],
     [route |-> "DELETE /api/classrooms/:id", id |-> 2, body |-> NoBody],
     [route |-> "PATCH /api/labs/:id/status", id |-> 1, body |-> [status |-> "closed"]],
     [route |-> "PATCH /api/labs/:id/status", id |-> 2, body |-> [status |-> "closed"]],
     [route |-> "POST /api/buses", id |-> NOINT, body |-> BusBody],
     [route |-> "PUT /api/buses/:id", id |-> 1,
      body |-> [BusBody EXCEPT !.number = "B2", !.stops = <<"Lake View", NULL>>]],
     [route |-> "DELETE /api/buses/:id", id |-> 1, body |-> NoBody],
     [route |-> "POST /api/cafeteria/menu", id |-> NOINT, body |-> MenuBody],
     [route |-> "PUT /api/cafeteria/menu/:id", id |-> 1,
      body |-> [MenuBody EXCEPT !.category = "dessert"]],
     [route |-> "DELETE /api/cafeteria/menu/:id", id |-> 1, body |-> NoBody],
     [route |-> "PUT /api/cafeteria/info", id |-> NOINT,
      body |-> [SampleInfo EXCEPT !.hours = "9:00 AM - 5:00 PM"]],
     [route |-> "POST /api/schedules", id |-> NOINT, body |-> ScheduleBody],
     [route |-> "POST /api/schedules", id |-> NOINT,
      body |-> [ScheduleBody EXCEPT !.day_of_week = "Friday", !.start_time = "9:00"]],
     [route |-> "POST /api/schedules", id |-> NOINT,
      body |-> [ScheduleBody EXCEPT !.start_time = "9:00"]],
     [route |-> "POST /api/schedules", id |-> NOINT,
      body |-> [ScheduleBody EXCEPT !.subject = UNDEFINED]],
     [route |-> "PUT /api/schedules/:id", id |-> 1,
      body |-> [ScheduleBody EXCEPT !.day_of_week = "", !.start_time = UNDEFINED,
                                    !.end_time = UNDEFINED, !.subject = UNDEFINED]],
     [route |-> "DELETE /api/schedules/:id", id |-> 1, body |-> NoBody]}

\* the arguments of the schedule read: :type, :id and ?day
TypeArgs == {"classroom", "lab"}
IdArgs == {<<"1">>, <<"0", "1">>, <<"1", "x">>}
DayArgs == {UNDEFINED, "", "Friday"}

\* ------------------------------------------------------------------ concurrent handlers
\* the :id of the requests that race
RacedId == 1

\* PATCH /api/booking-requests/:id/status up to its store call: a request
\* that requireAdmin or the validation turns away is answered at once, the
\* others issue their UPDATE and wait for it
PatchArrive(user, id, body) ==
    /\ IF ~requireAdmin(user) \/ ~ValidTargetStatus(body.status)
       THEN /\ resp' = [Response("status", user, PatchOutcome(user, id, body).code)
                           EXCEPT !.id = id]
            /\ UNCHANGED handlers
       ELSE /\ Len(handlers) < MaxQueued
            /\ handlers' = Append(handlers, [op |-> "status", user |-> user, id |-> id,
                                             patch |-> body, ran |-> 0])
            /\ UNCHANGED resp
    /\ UNCHANGED <<store, pending, now, tokens, signedOut, tables, sqlite_sequence,
                   writes>>

\* DELETE /api/booking-requests/:id up to its second store call: the row is
\* read and checked; a request the checks turn away is answered at once,
\* the others issue their DELETE and wait for it
DeleteArrive(user, id) ==
    /\ IF DeleteCode(user, getBookingRequestById(id)) # 0
       THEN /\ resp' = [Response("delete", user,
                                 DeleteCode(user, getBookingRequestById(id)))
                           EXCEPT !.id = id]
            /\ UNCHANGED handlers
       ELSE /\ Len(handlers) < MaxQueued
            /\ handlers' = Append(handlers, [op |-> "delete", user |-> user, id |-> id,
                                             patch |-> NoPatch, ran |-> 0])
            /\ UNCHANGED resp
    /\ UNCHANGED <<store, pending, now, tokens, signedOut, tables, sqlite_sequence,
                   writes>>

\* the store runs the statement of the i-th handler, which answers with the
\* statement's result; the statement is the ran-th to run
RunStatement(i) ==
    LET h == handlers[i]
    IN /\ h.ran = 0
       /\ handlers' = [handlers EXCEPT
                          ![i].ran = 1 + Cardinality({j \in DOMAIN handlers :
                                                        handlers[j].ran # 0})]
       /\ booking_requests' =
             IF h.op = "status"
             THEN updateBookingRequestStatus(h.id, h.patch.status, h.user.id,
                                             h.patch.admin_notes)
             ELSE deleteBookingRequest(h.id)
       /\ resp' = [Response(h.op, h.user, 200) EXCEPT
                      !.id = h.id, !.patch = h.patch, !.changes = Changes(h.id)]
       /\ UNCHANGED <<users, userSeq, bookingSeq, pending, now, tokens, signedOut,
                      tables, sqlite_sequence, writes>>

\* ------------------------------------------------------------------ specification
Init ==
    /\ users = {Admin}
    /\ userSeq = 1
    /\ booking_requests = {}
    /\ bookingSeq = 0
    /\ resp = NoResponse
    /\ pending = NonePending
    /\ now = 0
    /\ tokens = {}
    /\ signedOut = {}
    /\ tables = Seeded.db.tables
    /\ sqlite_sequence = Seeded.db.seq
    /\ writes = 0
    /\ handlers = <<>>

\* what the requests handled one at a time leave alone
beside ==
    <<pending, now, tokens, signedOut, tables, sqlite_sequence, writes, handlers>>

Next ==
    \/ \E body \in SignupBodies : Signup(body) /\ UNCHANGED beside
    \/ \E user \in Callers, body \in BookingBodies :
          PostBookingRequest(user, body) /\ UNCHANGED beside
    \/ \E user \in Callers, query \in SentQueries :
          GetBookingRequests(user, query) /\ UNCHANGED beside
    \/ \E user \in Callers, id \in RequestIds :
          GetBookingRequest(user, id) /\ UNCHANGED beside
    \/ \E user \in Callers, id \in RequestIds, body \in SentPatchBodies :
          PatchBookingRequestStatus(user, id, body) /\ UNCHANGED beside
    \/ \E user \in Callers, id \in RequestIds :
          DeleteBookingRequest(user, id) /\ UNCHANGED beside

Spec == Init /\ [][Next]_vars

\* concurrent signups
NextSignup ==
    \/ \E body \in RacingBodies : SignupCheck(body)
    \/ \E sid \in RacingIds, code \in ConstraintCodes : SignupInsert(sid, code)

SpecSignup == Init /\ [][NextSignup]_vars

\* the access gate
NextGate ==
    \/ \E body \in SignupBodies : SignupToken(body)
    \/ \E body \in SigninBodies : Signin(body)
    \/ Tick
    \/ \E route \in Routes, header \in Headers : Refused(route, header)
    \/ \E header \in Headers : Signout(header)
    \/ \E header \in Headers : Me(header)
    \/ \E header \in Headers : GatedPostBookingRequest(header, ValidBody)

SpecGate == Init /\ [][NextGate]_vars

\* concurrent status updates and deletes of the first booking request, by
\* its owner and the admin
NextRace ==
    \/ \E body \in SignupBodies : Signup(body) /\ UNCHANGED beside
    \/ \E user \in {u \in Callers : u.role # "admin"} :
          PostBookingRequest(user, ValidBody) /\ UNCHANGED beside
    \/ \E user \in Callers, body \in SentPatchBodies :
          PatchArrive(user, RacedId, body)
    \/ \E user \in {u \in Callers : u.role # "admin"} : DeleteArrive(user, RacedId)
    \/ \E i \in DOMAIN handlers : RunStatement(i)

SpecRace == Init /\ [][NextRace]_vars

\* the catalogs and the schedules
NextCatalog ==
    \/ \E body \in SignupBodies :
          Signup(body) /\ UNCHANGED beside
    \/ \E req \in CatalogRequests, user \in Callers, code \in ConstraintCodes :
          CatalogRequest(req.route, user, req.id, req.body, code)
    \/ \E user \in Callers, type \in TypeArgs, id \in IdArgs, day \in DayArgs :
          GetSchedules(user, type, id, day)
    \/ Restart

SpecCatalog == Init /\ [][NextCatalog]_vars

\* ------------------------------------------------------------------ properties
NonAdmins == {user \in Callers : user.role # "admin"}
Admins == {user \in Callers : user.role = "admin"}

\* the stored rows with a given id
Stored(id) == {r \in booking_requests : r.id = id}

\* a sequence of characters that spells a natural number
SpellsNumber(s) == s # <<>> /\ \A i \in 1 .. Len(s) : IsDigit(s[i])

\* row r has the resource_type / resource_id / status a listing asks for;
\* an absent or empty parameter asks for nothing, and so does status "all"
MatchesType(r, t) == t \in {UNDEFINED, ""} \/ r.resource_type = t
MatchesId(r, s) == s = <<>> \/ (SpellsNumber(s) /\ r.resource_id = DigitsValue(s))
MatchesStatus(r, st) == st \in {UNDEFINED, "", "all"} \/ r.status = st

\* C1: every booking request created through POST /api/booking-requests is
\* stored with status pending and with user_id equal to the caller's id,
\* whatever user_id or status the request body names.
C1_CreatedPendingOwnedByCaller ==
    /\ \A user \in Callers, body \in AllBookingBodies :
          LET out == PostOutcome(user, body)
          IN out.code = 201 =>
                /\ out.id \notin {r.id : r \in booking_requests}
                /\ \E r \in out.table : r.id = out.id
                /\ \A r \in out.table :
                      r.id = out.id => r.status = "pending" /\ r.user_id = user.id
    /\ (resp.op = "create" /\ resp.code = 201) =>
          /\ Stored(resp.id) # {}
          /\ \A r \in Stored(resp.id) :
                r.status = "pending" /\ r.user_id = resp.user

\* a student's request was created from a body naming the admin's id and
\* status approved
C1_Witness ==
    /\ resp.op = "create" /\ resp.code = 201 /\ resp.role = "student"
    /\ resp.body.user_id = 1 /\ resp.body.user_id # resp.user
    /\ resp.body.status = "approved"
    /\ \E r \in Stored(resp.id) : r.user_id = resp.user /\ r.status = "pending"

\* C2: a non-admin caller listing booking requests without a status filter
\* receives only rows whose user_id is the caller's id, and receives every
\* such row that matches the resource filters.
C2_NonAdminListsOwnRows ==
    \A user \in NonAdmins, q \in Queries :
        q.status = UNDEFINED =>
            LET answer == ListAnswer(user, q)
            IN /\ \A r \in answer : r \in booking_requests /\ r.user_id = user.id
               /\ \A r \in booking_requests :
                     (/\ r.user_id = user.id
                      /\ MatchesType(r, q.resource_type)
                      /\ MatchesId(r, q.resource_id)) => r \in answer

\* a student listed without filters, got a row, and a row of another user
\* is stored
C2_Witness ==
    /\ resp.op = "list" /\ resp.role = "student" /\ resp.query = NoQuery
    /\ resp.rows # {}
    /\ \E r \in booking_requests : r.user_id # resp.user

\* C3: a non-admin caller listing with status=approved receives all approved
\* rows that match the resource filters, other users' rows included, and no
\* row whose status is not approved.
C3_NonAdminSeesAllApproved ==
    \A user \in NonAdmins, q \in Queries :
        q.status = "approved" =>
            LET answer == ListAnswer(user, q)
            IN /\ \A r \in answer : r \in booking_requests /\ r.status = "approved"
               /\ \A r \in booking_requests :
                     (/\ r.status = "approved"
                      /\ MatchesType(r, q.resource_type)
                      /\ MatchesId(r, q.resource_id)) => r \in answer

\* a student listed with status=approved and got another user's row, while a
\* row that is not approved is stored
C3_Witness ==
    /\ resp.op = "list" /\ resp.role = "student" /\ resp.query.status = "approved"
    /\ \E r \in resp.rows : r.user_id # resp.user /\ r.status = "approved"
    /\ \E r \in booking_requests : r.status # "approved"

\* C4: an admin listing receives every stored request that matches the status,
\* resource_type and resource_id filters, whoever owns it; with no filter, or
\* status=all, the admin receives all stored requests.
C4_AdminListsAllMatching ==
    [](\A user \in Admins, q \in Queries :
          LET answer == ListAnswer(user, q)
          IN /\ answer \subseteq booking_requests
             /\ \A r \in booking_requests :
                   (/\ MatchesStatus(r, q.status)
                    /\ MatchesType(r, q.resource_type)
                    /\ MatchesId(r, q.resource_id)) => r \in answer
             /\ (/\ q.status \in {UNDEFINED, "all"}
                 /\ q.resource_type = UNDEFINED
                 /\ q.resource_id = <<>>) => answer = booking_requests)

\* the admin listed without filters and got two rows, one of them another
\* user's
C4_Witness ==
    /\ resp.op = "list" /\ resp.role = "admin" /\ resp.query = NoQuery
    /\ Cardinality(resp.rows) = 2
    /\ \E r \in resp.rows : r.user_id # resp.user

\* C5: a delete by a non-admin caller fails with 403 when the caller does not
\* own the request and with 400 when the caller owns it but its status is not
\* pending; in both cases the request stays stored and unchanged.
C5_NonAdminDeleteRefused ==
    /\ \A user \in NonAdmins, r \in booking_requests :
          LET out == DeleteOutcome(user, r.id)
          IN /\ r.user_id # user.id =>
                   out.code = 403 /\ out.table = booking_requests
             /\ (r.user_id = user.id /\ r.status # "pending") =>
                   out.code = 400 /\ out.table = booking_requests
    /\ (resp.op = "delete" /\ resp.code \in {400, 403}) =>
          /\ resp.role # "admin"
          /\ \E r \in Stored(resp.id) :
                IF resp.code = 403 THEN r.user_id # resp.user
                ELSE r.user_id = resp.user /\ r.status # "pending"

\* a student's delete of their own approved request was answered 400 and the
\* request is still stored
C5_Witness ==
    /\ resp.op = "delete" /\ resp.code = 400 /\ resp.role = "student"
    /\ \E r \in Stored(resp.id) : r.user_id = resp.user /\ r.status = "approved"

\* a student's delete of another user's request was answered 403
C5_WitnessForbidden ==
    /\ resp.op = "delete" /\ resp.code = 403 /\ resp.role = "student"
    /\ \E r \in Stored(resp.id) : r.user_id # resp.user

\* the ids the sequence has given out whose row is no longer stored
Deleted == {id \in 1 .. bookingSeq : Stored(id) = {}}

\* C6: an admin's delete removes the named request whatever its status, and
\* an owner's delete removes their own pending request; after a successful
\* delete the request is returned by no listing, and fetch or delete by its
\* id answers 404.
C6_DeleteRemovesForGood ==
    /\ [](/\ \A user \in Callers, r \in booking_requests :
               (user.role = "admin" \/ (r.user_id = user.id /\ r.status = "pending"))
                  => LET out == DeleteOutcome(user, r.id)
                     IN /\ out.code = 200
                        /\ out.changes = 1
                        /\ out.table = booking_requests \ {r}
          /\ (resp.op = "delete" /\ resp.code = 200) => resp.id \in Deleted
          /\ \A id \in Deleted, user \in Callers :
                /\ FetchOutcome(user, id) = [code |-> 404, rows |-> {}]
                /\ DeleteOutcome(user, id).code = 404
                /\ DeleteOutcome(user, id).table = booking_requests
                /\ \A q \in Queries : \A r \in ListAnswer(user, q) : r.id # id)
    /\ [][Deleted \subseteq Deleted']_vars

\* after a delete, a fetch of the deleted id was answered 404 while another
\* request is still stored
C6_Witness ==
    /\ resp.op = "fetch" /\ resp.code = 404 /\ resp.id \in Deleted
    /\ booking_requests # {}

\* the admin deleted a request that is gone now
C6_WitnessAdminDelete ==
    /\ resp.op = "delete" /\ resp.code = 200 /\ resp.role = "admin"
    /\ resp.changes = 1 /\ resp.id \in Deleted

\* C7: the status of a booking request changes only through an admin's status
\* update: a status update sent by a non-admin caller, the owner included, is
\* answered 403 and leaves the request unchanged, and no other operation
\* changes any request's status.
C7_StatusChangesOnlyByAdminUpdate ==
    /\ [](/\ \A user \in NonAdmins, id \in RequestIds, body \in PatchBodies :
               LET out == PatchOutcome(user, id, body)
               IN out.code = 403 /\ out.table = booking_requests
          /\ (resp.op = "status" /\ resp.role # "admin") => resp.code = 403)
    /\ [][\A r \in booking_requests : \A r2 \in booking_requests' :
             (r2.id = r.id /\ r2.status # r.status)
                => /\ resp'.op = "status" /\ resp'.role = "admin"
                   /\ resp'.code = 200 /\ resp'.id = r.id]_vars

\* a student's status update on their own pending request was answered 403
\* and the request is still pending
C7_Witness ==
    /\ resp.op = "status" /\ resp.code = 403 /\ resp.role = "student"
    /\ \E r \in Stored(resp.id) : r.user_id = resp.user /\ r.status = "pending"

\* C8: an admin status update whose target status is missing or is anything
\* but approved or rejected is answered 400 and leaves status, reviewed_by,
\* reviewed_at and admin_notes of the request unchanged.
C8_InvalidTargetStatusRejected ==
    \A user \in Admins, id \in RequestIds, body \in PatchBodies :
        body.status \notin {"approved", "rejected"} =>
            LET out == PatchOutcome(user, id, body)
            IN out.code = 400 /\ out.table = booking_requests

\* the admin's update to status pending of an approved request was answered
\* 400 and the request still shows the approval
C8_Witness ==
    /\ resp.op = "status" /\ resp.code = 400 /\ resp.role = "admin"
    /\ resp.patch.status = "pending"
    /\ \E r \in Stored(resp.id) :
          r.status = "approved" /\ r.admin_notes = "OK" /\ r.reviewed_by = resp.user

\* the notes a status update stores for the admin_notes it is given
StoredNotes(admin_notes) == IF admin_notes = UNDEFINED THEN NULL ELSE admin_notes

\* C9: every successful admin status update to approved or rejected on an
\* existing request sets reviewed_by to the id of the admin who made the
\* call, sets reviewed_at, and sets admin_notes to the notes given (unset when
\* none are given); a subsequent fetch shows the stored row.
C9_UpdateStampsReview ==
    [](/\ \A user \in Admins, r \in booking_requests, body \in PatchBodies :
             body.status \in {"approved", "rejected"} =>
                 LET out == PatchOutcome(user, r.id, body)
                 IN /\ out.code = 200 /\ out.changes = 1
                    /\ \E r2 \in out.table : r2.id = r.id
                    /\ \A r2 \in out.table :
                          r2.id = r.id =>
                             /\ r2.status = body.status
                             /\ r2.reviewed_by = user.id
                             /\ r2.reviewed_at # NULL
                             /\ r2.admin_notes = StoredNotes(body.admin_notes)
       /\ (resp.op = "status" /\ resp.code = 200 /\ resp.changes = 1) =>
             /\ Stored(resp.id) # {}
             /\ \A r \in Stored(resp.id) :
                   /\ r.status = resp.patch.status
                   /\ r.reviewed_by = resp.user
                   /\ r.reviewed_at # NULL
                   /\ r.admin_notes = StoredNotes(resp.patch.admin_notes)
       /\ \A user \in Callers, r \in booking_requests :
             (user.role = "admin" \/ r.user_id = user.id) =>
                 FetchOutcome(user, r.id) = [code |-> 200, rows |-> {r}])

\* the admin approved a student's request with notes "OK" and the stored row
\* carries the approval
C9_Witness ==
    /\ resp.op = "status" /\ resp.code = 200 /\ resp.changes = 1
    /\ resp.patch = [status |-> "approved", admin_notes |-> "OK"]
    /\ \E r \in Stored(resp.id) :
          /\ r.user_id # resp.user
          /\ r.status = "approved" /\ r.reviewed_by = 1 /\ r.admin_notes = "OK"

Reviewed == {"approved", "rejected"}

\* C10: once a booking request's status is approved or rejected, no operation
\* brings it back to pending: it stays approved or rejected until deleted.
C10_NoReturnToPending ==
    [][\A r \in booking_requests : \A r2 \in booking_requests' :
          (r2.id = r.id /\ r.status \in Reviewed) => r2.status \in Reviewed]_vars

\* a rejected request was the target of an update to status pending and is
\* still rejected
C10_Witness ==
    /\ resp.op = "status" /\ resp.patch.status = "pending"
    /\ \E r \in Stored(resp.id) : r.status = "rejected"

\* C11: the admin status transition is unconditional: an update to approved
\* or rejected succeeds whatever the request's current status is (an approved
\* request can be re-approved or rejected, a rejected one re-rejected or
\* approved), each time overwriting reviewed_by, reviewed_at and admin_notes.
C11_TransitionUnconditional ==
    /\ [](\A user \in Admins, r \in booking_requests, body \in PatchBodies :
             body.status \in Reviewed =>
                LET out == PatchOutcome(user, r.id, body)
                IN /\ out.code = 200
                   /\ out.table = (booking_requests \ {r}) \cup
                         {[r EXCEPT !.status = body.status,
                                    !.reviewed_by = user.id,
                                    !.reviewed_at = CURRENT_TIMESTAMP,
                                    !.admin_notes = StoredNotes(body.admin_notes),
                                    !.updated_at = CURRENT_TIMESTAMP]})
    /\ [][(resp'.op = "status" /\ resp'.code = 200 /\ resp'.changes = 1) =>
             \A r \in Stored(resp'.id) :
                /\ resp'.was = r.status
                /\ \E r2 \in booking_requests' :
                      /\ r2.id = r.id
                      /\ r2.status = resp'.patch.status
                      /\ r2.reviewed_by = resp'.user
                      /\ r2.admin_notes = StoredNotes(resp'.patch.admin_notes)]_vars

\* the admin rejected, without notes, a request that was approved with notes
\* "OK": the row is rejected now and its notes are gone
C11_Witness ==
    /\ resp.op = "status" /\ resp.code = 200 /\ resp.was = "approved"
    /\ resp.patch = [status |-> "rejected", admin_notes |-> UNDEFINED]
    /\ \E r \in Stored(resp.id) :
          r.status = "rejected" /\ r.admin_notes = NULL /\ r.reviewed_by = resp.user

\* the mandatory field f is absent from the body, or given empty (the empty
\* string; a resource_id that is missing, null or 0)
Absent(body, f) ==
    IF f = "resource_id" THEN body.resource_id = NOINT
    ELSE body[f] \in {UNDEFINED, ""}

\* C12: a creation in which any of resource_type, resource_id, date,
\* start_time, end_time or program_name is absent (missing or empty) is
\* answered 400 and stores no row; a creation with all six present succeeds
\* whether or not description and participant_count are given.
C12_MandatoryFields ==
    [](/\ \A user \in Callers, body \in CreationBodies :
             LET out == PostOutcome(user, body)
             IN IF \E f \in MandatoryText \cup {"resource_id"} : Absent(body, f)
                THEN out.code = 400 /\ out.table = booking_requests
                ELSE /\ out.code = 201
                     /\ Cardinality(out.table) = Cardinality(booking_requests) + 1
                     /\ \E r \in out.table \ booking_requests :
                           /\ r.id = out.id
                           /\ r.program_name = body.program_name
                           /\ r.resource_id = body.resource_id
       /\ (resp.op = "create" /\ resp.code = 400) =>
             /\ \E f \in MandatoryText \cup {"resource_id"} : Absent(resp.body, f)
             /\ resp.id = NOINT)

\* a creation without program_name was answered 400, and a request created
\* without description and participant_count is stored
C12_Witness ==
    /\ resp.op = "create" /\ resp.code = 400
    /\ resp.body.program_name = UNDEFINED /\ resp.body.resource_type # UNDEFINED
    /\ \E r \in booking_requests : r.description = NULL /\ r.participant_count = NOINT

\* C13: an approved booking request is visible to every authenticated user:
\* neither the listing with status=approved nor the fetch by id denies a
\* non-admin caller who is not the owner access to an approved request.
C13_ApprovedVisibleToAll ==
    \A user \in NonAdmins, r \in booking_requests :
        (r.status = "approved" /\ r.user_id # user.id) =>
            /\ r \in ListAnswer(user, [NoQuery EXCEPT !.status = "approved"])
            /\ FetchOutcome(user, r.id) = [code |-> 200, rows |-> {r}]

\* C16: after any sequence of API operations the only user with role admin is
\* the account seeded at bootstrap: signup stores role student whatever role
\* the body names, no operation changes a user's role and none deletes a user.
C16_OnlySeededAdmin ==
    /\ [](/\ Admin \in users
          /\ \A u \in users : u.role = "admin" => u = Admin
          /\ (resp.op = "signup" /\ resp.code = 201) =>
                /\ resp.role = "student"
                /\ \E u \in users : u.id = resp.user /\ u.role = "student")
    /\ [][users \subseteq users']_vars

\* a signup whose body named role admin created the account with role student
C16_Witness ==
    /\ resp.op = "signup" /\ resp.code = 201
    /\ \A b \in SignupBodies :
          (b.student_id = "s1" /\ Len(b.password) >= 6) => b.role = "admin"
    /\ \E u \in users :
          u.id = resp.user /\ u.student_id = "s1" /\ u.role = "student"

\* C17: in every reachable state, also when signups with the same student_id
\* run concurrently (each checking before either inserts), no two users share
\* a student_id; the signup that finds the student_id taken, at the check or
\* at the insert, creates no user and is answered 400, not 500.
C17_RacingSignups ==
    /\ \A u1 \in users, u2 \in users : u1.student_id = u2.student_id => u1 = u2
    /\ resp.op = "signup" => resp.code \in {201, 400}

\* the routes the claim exempts from the gate
PublicRoutes == {"POST /api/auth/signup", "POST /api/auth/signin", "GET /api/health"}

\* C14: every API route other than signup, signin and health runs its
\* handler only for a request that carries a valid, unexpired bearer token: a
\* request without a token is answered 401, one with an invalid or expired
\* token 403, and in both cases the store is left unchanged.
C14_TokenGate ==
    /\ [](/\ \A route \in Routes \ PublicRoutes :
                Middleware[route] # <<>> /\ Middleware[route][1] = "authenticateToken"
          /\ \A header \in Headers :
                LET a == authenticateToken(header)
                IN /\ Len(header) < 2 => a.code = 401
                   /\ (Len(header) >= 2 /\ (header[2] \notin tokens \/ header[2].exp <= now))
                         => a.code = 403
                   /\ a.code = 0 =>
                         /\ header[2] \in tokens /\ now < header[2].exp
                         /\ a.user = header[2].payload
          /\ resp.op = "refused" =>
                /\ resp.code = IF Len(resp.header) < 2 THEN 401 ELSE 403
                /\ Len(resp.header) >= 2 =>
                      resp.header[2] \notin tokens \/ resp.header[2].exp <= now)
    /\ [][resp'.op = "refused" => store' = store]_vars
    /\ [][(store' # store /\ resp'.op # "signup") =>
             \E t \in tokens : now < t.exp /\ t.payload.id = resp'.user]_vars

\* a request carrying an issued token that has expired was answered 403,
\* after a request was created with the token while it was valid
C14_Witness ==
    /\ resp.op = "refused" /\ resp.code = 403
    /\ HeaderToken(resp.header) \in tokens /\ HeaderToken(resp.header).exp <= now
    /\ \E r \in booking_requests : r.user_id = HeaderToken(resp.header).payload.id

\* a request without a token was answered 401
C14_WitnessNoToken ==
    /\ resp.op = "refused" /\ resp.code = 401 /\ resp.header = <<"Bearer">>

\* C18: signout changes no server state and revokes nothing: a token accepted
\* before POST /api/auth/signout is still accepted by every protected route
\* after it, until the token expires.
C18_SignoutRevokesNothing ==
    /\ [](\A t \in signedOut :
             now < t.exp =>
                authenticateToken(<<"Bearer", t>>) = [code |-> 0, user |-> t.payload])
    /\ [][resp'.op = "signout" => (store' = store /\ tokens' = tokens)]_vars

\* a request carrying a token that had been presented to signout was served
C18_Witness ==
    /\ resp.op = "me" /\ resp.code = 200
    /\ HeaderToken(resp.header) \in signedOut

\* C15: a caller whose role is not admin never changes classrooms, labs,
\* buses, bus stops, cafeteria menu, cafeteria info or schedules: every
\* create, update or delete request on them by a non-admin is answered 403
\* and leaves all of these tables unchanged.
C15_NonAdminCannotChange ==
    /\ [](\A req \in CatalogRequests, user \in Callers, code \in ConstraintCodes :
             user.role # "admin" =>
                CatalogOutcome(req.route, user, req.id, req.body, code)
                    = [code |-> 403, db |-> Db])
    /\ [][(resp'.op \in CatalogWriteRoutes /\ resp'.role # "admin") =>
             (resp'.code = 403 /\ tables' = tables
              /\ sqlite_sequence' = sqlite_sequence)]_vars
    /\ [][tables' # tables => (resp'.role = "admin" \/ resp'.op = "init")]_vars

\* a student's request to delete a schedule entry that exists was answered
\* 403
C15_Witness ==
    /\ resp.op = "DELETE /api/schedules/:id" /\ resp.role = "student"
    /\ resp.code = 403
    /\ \E r \in tables["schedules"] : r.id = resp.id

\* the number the text of an :id argument spells, when it spells one
C19_Spells(text, n) == text \in {<<"1">>, <<"0", "1">>} /\ n = 1

\* a day is given when the ?day parameter is a non-empty text
C19_DayGiven(day) == day \notin {UNDEFINED, ""}

\* C19: getSchedulesByResource(type, id, day) returns exactly the stored
\* schedule entries whose resource_type and resource_id equal the arguments
\* (and whose day_of_week equals day when a day is given), each once, sorted
\* ascending by day_of_week and then start_time as the store compares text;
\* a read changes nothing and two reads with the same arguments and no write
\* between them return the same sequence.
C19_ScheduleRead ==
    /\ [](\A type \in TypeArgs, id \in IdArgs, day \in DayArgs :
             LET list == getSchedulesByResource(type, id, day)
             IN /\ {list[i] : i \in DOMAIN list}
                      = {r \in tables["schedules"] :
                            /\ r.resource_type = type
                            /\ C19_Spells(id, r.resource_id)
                            /\ C19_DayGiven(day) => r.day_of_week = day}
                /\ \A i \in DOMAIN list, j \in DOMAIN list :
                      i < j =>
                         /\ list[i] # list[j]
                         /\ ~TextLess(list[j].day_of_week, list[i].day_of_week)
                         /\ list[i].day_of_week = list[j].day_of_week =>
                               ~TextLess(list[j].start_time, list[i].start_time))
    /\ [][resp'.op = "GET /api/schedules/:type/:id" =>
             (tables' = tables /\ sqlite_sequence' = sqlite_sequence)]_vars
    /\ [][(/\ resp.op = "GET /api/schedules/:type/:id"
           /\ resp'.op = "GET /api/schedules/:type/:id"
           /\ resp'.query = resp.query /\ resp'.day = resp.day) =>
             resp'.list = resp.list]_vars

\* a read answered two entries in an order that is not the order they were
\* stored in: the later entry sorts first
C19_Witness ==
    /\ resp.op = "GET /api/schedules/:type/:id"
    /\ Len(resp.list) = 2
    /\ resp.list[1].id > resp.list[2].id

\* a read with a day given answered one of two stored entries
C19_WitnessDay ==
    /\ resp.op = "GET /api/schedules/:type/:id"
    /\ resp.day = "Friday" /\ Len(resp.list) = 1
    /\ Cardinality(tables["schedules"]) = 2

\* the catalogs init seeds
SeededCatalogs ==
    {"classrooms", "labs", "buses", "bus_stops", "cafeteria_menu", "cafeteria_info"}

\* C20: running init on a store that was already initialised, after any
\* sequence of API operations, completes without error, creates no second
\* admin account, and inserts no sample rows into a catalog that already
\* holds rows.
C20_InitIdempotent ==
    [][resp'.op = "init" =>
          /\ resp'.code = 0
          /\ Cardinality({u \in users' : u.role = "admin"}) = 1
          /\ \A t \in SeededCatalogs :
                tables[t] # {} => tables'[t] \subseteq tables[t]]_vars

\* the table a resource_type names
C22_TableOf(type) == IF type = "classroom" THEN "classrooms" ELSE "labs"

\* C22: every stored booking request and every stored schedule entry refers
\* to an existing resource: its resource_type is classroom or lab and its
\* resource_id is the id of a row of the table resource_type names.
C22_ResourceExists ==
    \A r \in booking_requests \cup tables["schedules"] :
        /\ r.resource_type \in {"classroom", "lab"}
        /\ \E row \in tables[C22_TableOf(r.resource_type)] : row.id = r.resource_id

\* minutes after midnight of the times the bodies carry
C23_Minutes ==
    [t \in {"10:00"} |-> 600] @@ [t \in {"11:00"} |-> 660]
    @@ [t \in {"12:00"} |-> 720] @@ [t \in {"13:00"} |-> 780]

\* a request for the resource and date of r whose time range overlaps r's
C23_Overlaps(r, resource_type, resource_id, date, start_time, end_time) ==
    /\ r.resource_type = resource_type /\ r.resource_id = resource_id
    /\ r.date = date
    /\ C23_Minutes[r.start_time] < C23_Minutes[end_time]
    /\ C23_Minutes[start_time] < C23_Minutes[r.end_time]

\* C23: the server does not enforce booking overlap: a creation, and an
\* admin's approval, succeed even when an approved request exists for the
\* same resource and date with an overlapping time range.
C23_OverlapNotEnforced ==
    [](\A r \in booking_requests :
          r.status = "approved" =>
             /\ \A user \in Callers, body \in {ValidBody, SpoofBody} :
                   C23_Overlaps(r, body.resource_type, body.resource_id, body.date,
                                body.start_time, body.end_time)
                      => PostOutcome(user, body).code = 201
             /\ \A user \in Admins, q \in booking_requests :
                   (/\ q.id # r.id
                    /\ C23_Overlaps(r, q.resource_type, q.resource_id, q.date,
                                    q.start_time, q.end_time))
                      => LET out == PatchOutcome(user, q.id, [status |-> "approved",
                                                              admin_notes |-> "OK"])
                         IN /\ out.code = 200
                            /\ \E q2 \in out.table :
                                  q2.id = q.id /\ q2.status = "approved"
                            /\ r \in out.table)

\* two approved requests for one resource and date with overlapping times
\* are stored, the second approved after the first
C23_Witness ==
    /\ resp.op = "status" /\ resp.code = 200 /\ resp.patch.status = "approved"
    /\ \E r \in booking_requests, q \in booking_requests :
          /\ r.id # q.id /\ q.id = resp.id
          /\ r.status = "approved" /\ q.status = "approved"
          /\ C23_Overlaps(r, q.resource_type, q.resource_id, q.date,
                          q.start_time, q.end_time)

\* the filters a listing can carry
C27_Queries ==
    [status : {UNDEFINED, "", "all", "pending", "approved", "rejected"},
     resource_type : {UNDEFINED, "lab"},
     resource_id : {<<>>, <<"2">>}]

\* C27: for every combination of status, resource_type and resource_id
\* filters, a listing made by a non-admin caller contains no booking request
\* that is owned by another user and not approved.
C27_NoForeignUnapproved ==
    [](/\ \A user \in NonAdmins, q \in C27_Queries :
             \A r \in ListAnswer(user, q) :
                r.user_id = user.id \/ r.status = "approved"
       /\ (resp.op = "list" /\ resp.role # "admin") =>
             \A r \in resp.rows : r.user_id = resp.user \/ r.status = "approved")

\* a student listed with status=pending while a pending request of another
\* user that matches the other filters is stored, and did not get it
C27_Witness ==
    /\ resp.op = "list" /\ resp.role = "student" /\ resp.query.status = "pending"
    /\ \E r \in booking_requests :
          /\ r.user_id # resp.user /\ r.status = "pending"
          /\ MatchesType(r, resp.query.resource_type)
          /\ r.resource_id = parseInt(resp.query.resource_id)
          /\ r \notin resp.rows

\* C28: each booking request with status pending has reviewed_by,
\* reviewed_at and admin_notes unset, and each with status approved or
\* rejected has reviewed_at set and reviewed_by equal to the id of a user
\* whose role is admin.
C28_ReviewFieldsFollowStatus ==
    [](\A r \in booking_requests :
          /\ r.status \in {"pending", "approved", "rejected"}
          /\ r.status = "pending" =>
                r.reviewed_by = NOINT /\ r.reviewed_at = NULL /\ r.admin_notes = NULL
          /\ r.status \in {"approved", "rejected"} =>
                /\ r.reviewed_at # NULL
                /\ \E u \in users : u.id = r.reviewed_by /\ u.role = "admin")

\* a pending request and a reviewed request of a student are stored
C28_Witness ==
    /\ \E r \in booking_requests : r.status = "pending"
    /\ \E r \in booking_requests :
          /\ r.status = "rejected" /\ r.reviewed_by = 1 /\ r.user_id # 1

\* C29: an admin status update to approved or rejected that names an id for
\* which no booking request is stored creates no row and changes no row, and
\* is answered 200 with changes = 0, not 404.
C29_MissingIdAnswersSuccess ==
    /\ [](\A user \in Admins, id \in RequestIds, body \in PatchBodies :
             (Stored(id) = {} /\ body.status \in {"approved", "rejected"}) =>
                PatchOutcome(user, id, body)
                    = [code |-> 200, table |-> booking_requests, changes |-> 0])
    /\ [][(/\ resp'.op = "status" /\ resp'.role = "admin"
           /\ resp'.patch.status \in {"approved", "rejected"}
           /\ Stored(resp'.id) = {}) =>
             (/\ resp'.code = 200 /\ resp'.changes = 0
              /\ booking_requests' = booking_requests)]_vars

\* the admin's update of a missing id was answered 200 with no change while
\* another request is stored
C29_Witness ==
    /\ resp.op = "status" /\ resp.role = "admin"
    /\ resp.code = 200 /\ resp.changes = 0
    /\ Stored(resp.id) = {} /\ booking_requests # {}

\* the columns a status update leaves alone
C30_Kept ==
    {"id", "user_id", "resource_type", "resource_id", "date", "start_time",
     "end_time", "program_name", "description", "participant_count", "created_at"}

\* C30: an admin status update changes only that request's status,
\* reviewed_by, reviewed_at, admin_notes and updated_at: the other columns
\* stay as set at creation and every other request is unchanged; no
\* operation changes the owner of a request.
C30_UpdateFrame ==
    /\ [][resp'.op = "status" =>
             /\ {r.id : r \in booking_requests'} = {r.id : r \in booking_requests}
             /\ Cardinality(booking_requests') = Cardinality(booking_requests)
             /\ \A r \in booking_requests, r2 \in booking_requests' :
                   r2.id = r.id =>
                      /\ \A c \in C30_Kept : r2[c] = r[c]
                      /\ r.id # resp'.id => r2 = r]_vars
    /\ [][\A r \in booking_requests, r2 \in booking_requests' :
             r2.id = r.id => r2.user_id = r.user_id]_vars

\* the admin approved a student's request, which still belongs to the
\* student, while another request is stored
C30_Witness ==
    /\ resp.op = "status" /\ resp.code = 200 /\ resp.changes = 1
    /\ Cardinality(booking_requests) = 2
    /\ \E r \in Stored(resp.id) :
          r.user_id # resp.user /\ r.reviewed_by = resp.user

\* C21: every 500 response carries the fixed generic error text its handler
\* chose, never the message text of the store error or internal error.
C21_GenericServerError ==
    (resp.code = 500 /\ resp.op \in DOMAIN FailedMessage) =>
        resp.error = FailedMessage[resp.op]

\* the update of bus 1 whose second new stop the store rejects
C26_Request == CHOOSE req \in CatalogRequests : req.route = "PUT /api/buses/:id"

\* C26: updateBus is not atomic: when a statement fails part-way the effects
\* of the statements already run stay in the store (bus row changed, old
\* stops gone, new stops partial) and nothing is rolled back.
C26_UpdateBusNotAtomic ==
    [](\A user \in Admins, bus \in tables["buses"] :
          bus.id = C26_Request.id =>
             LET out == CatalogOutcome(C26_Request.route, user, bus.id,
                                       C26_Request.body, "SQLITE_CONSTRAINT")
             IN /\ out.code = 500
                /\ out.db.tables["buses"] =
                      (tables["buses"] \ {bus})
                      \cup {[bus EXCEPT !.number = C26_Request.body.number,
                                        !.time = C26_Request.body.time,
                                        !.route = C26_Request.body.route]}
                /\ out.db.tables["bus_stops"] =
                      {st \in tables["bus_stops"] : st.bus_id # bus.id}
                      \cup {[id |-> sqlite_sequence["bus_stops"] + 1,
                             bus_id |-> bus.id,
                             stop_name |-> C26_Request.body.stops[1],
                             stop_order |-> 1]})

\* the update was answered 500 and the store holds the renamed bus with the
\* first of its two new stops and none of its old ones
C26_Witness ==
    /\ resp.op = "PUT /api/buses/:id" /\ resp.code = 500
    /\ \E bus \in tables["buses"] :
          /\ bus.id = resp.id /\ bus.number = C26_Request.body.number
          /\ {st.stop_name : st \in {st \in tables["bus_stops"] : st.bus_id = bus.id}}
                = {C26_Request.body.stops[1]}

\* the handlers whose statement has run
C24_Done == {i \in DOMAIN handlers : handlers[i].ran # 0}

\* C24: when admin status updates for the same booking request run
\* concurrently, each completes without an error, and the stored status,
\* reviewed_by and admin_notes are all those of the update whose statement
\* ran last, never a mix.  (A request that was stored only after the update
\* ran is still unreviewed and is not the update's.)
C24_LastWriteWins ==
    /\ [](\A i \in C24_Done :
             (/\ handlers[i].op = "status"
              /\ \A j \in DOMAIN handlers :
                    (handlers[j].op = "status" /\ handlers[j].id = handlers[i].id)
                       => (j \in C24_Done /\ handlers[j].ran <= handlers[i].ran))
                => \A r \in Stored(handlers[i].id) :
                      r.reviewed_at # NULL =>
                         /\ r.status = handlers[i].patch.status
                         /\ r.reviewed_by = handlers[i].user.id
                         /\ r.admin_notes = StoredNotes(handlers[i].patch.admin_notes))
    /\ [][\A i \in DOMAIN handlers :
             (handlers[i].op = "status" /\ handlers[i].ran = 0 /\ handlers'[i].ran # 0)
                => /\ resp'.op = "status" /\ resp'.code = 200
                   /\ resp'.changes = Cardinality(Stored(handlers[i].id))
                   /\ \A r \in Stored(handlers[i].id) :
                         \E r2 \in booking_requests' :
                            /\ r2.id = r.id
                            /\ r2.status = handlers[i].patch.status
                            /\ r2.reviewed_by = handlers[i].user.id
                            /\ r2.admin_notes
                                  = StoredNotes(handlers[i].patch.admin_notes)]_vars

\* two different updates of one request waited together, the one that
\* arrived second ran first, and the row carries the other's values
C24_Witness ==
    /\ Len(handlers) = 2
    /\ handlers[1].op = "status" /\ handlers[2].op = "status"
    /\ handlers[1].id = handlers[2].id
    /\ handlers[1].patch.status = "rejected" /\ handlers[2].patch.status = "approved"
    /\ handlers[1].ran = 2 /\ handlers[2].ran = 1
    /\ \E r \in Stored(handlers[1].id) :
          r.status = "rejected" /\ r.admin_notes = NULL

\* C25: in every interleaving of concurrent handlers, a booking request
\* removed by a non-admin's delete has status pending at the moment it is
\* removed.
C25_RemovedWhilePending ==
    [][\A i \in DOMAIN handlers :
          (/\ handlers[i].op = "delete" /\ handlers[i].user.role # "admin"
           /\ handlers[i].ran = 0 /\ handlers'[i].ran # 0)
             => \A r \in booking_requests \ booking_requests' :
                   r.status = "pending"]_vars
====
